---- MODULE Spec2Model ----
(***************************************************************************)
(* A model of the TERRA WhatsApp work-log bot (src/bot_polya_whatsapp.py): *)
(* the in-memory conversation state store, the SQLite tables, the          *)
(* pagination helper and the callback / text handlers.                     *)
(*                                                                         *)
(* Conventions.                                                            *)
(*  - A Python dict is a TLA+ function whose DOMAIN is the set of keys     *)
(*    present (Get / Put below).                                           *)
(*  - An Optional value is a tuple: <<>> is None, <<v>> is the value v.    *)
(*  - A callback id ("work:act:tech:7") is the sequence of its ":"-        *)
(*    separated tokens (<<"work","act","tech","7">>); numbers inside ids   *)
(*    are decimal strings, converted by ToStr / ParseInt.                  *)
(*  - A message text is a short tag naming the literal of the source.      *)
(***************************************************************************)
EXTENDS Integers, Sequences, FiniteSets, TLC

VARIABLES
    user_states,   \* user_states: user_id -> {"state", "data"}      (line 115)
    users,         \* table users: user_id -> row
    activities,    \* table activities: set of rows [id, name, grp]
    locations,     \* table locations: set of rows [id, name, grp]
    reports,       \* table reports: set of rows
    seq,           \* AUTOINCREMENT counters of the three tables
    now,           \* the clock, in units of 24 hours
    sent,          \* the messages the handler running last has sent
    last,          \* the event the handler running last was given
    raised,        \* whether an exception escaped that handler
    pg_call,       \* arguments of the pagination call made last
    pg_first,      \* a remembered earlier pagination call and its output
    fsm_states,    \* utils.state: phone -> {"state", "data"} (menu_handlers.py)
    entries,       \* the rows save_entry has stored
    save_log,      \* the save_entry calls of the handler running last
    google_exports,  \* table google_exports: set of rows
    monthly_sheets,  \* table monthly_sheets: the sheet names that have a sheet
    sheet_rows,      \* Google Sheets: sheet name -> the rows appended
    ex,              \* the export runs: runner -> position and locals
    http,            \* the request answered last and its response
    pending,         \* handlers between their cap check and their write
    sheets_table,    \* table monthly_sheets in full: rows [id, year, month]
    sheet_call       \* the call for a monthly sheet made last: day and result

vars == <<user_states, users, activities, locations, reports, seq, now,
          sent, last, raised, pg_call, pg_first, fsm_states, entries, save_log,
          google_exports, monthly_sheets, sheet_rows, ex, http, pending,
          sheets_table, sheet_call>>

dbVars == <<users, activities, locations, reports, seq>>
pgVars == <<pg_call, pg_first>>
smVars == <<fsm_states, entries, save_log>>
exVars == <<google_exports, monthly_sheets, sheet_rows, ex>>
webVars == <<http, pending>>
calVars == <<sheets_table, sheet_call>>

-----------------------------------------------------------------------------
(* Bounds of the model.                                                    *)

MaxNum == 40          \* decimal strings are converted for |n| <= MaxNum
MaxReports == 2       \* rows ever inserted into reports
MaxNow == 1           \* clock ticks (24 h each)
MaxItems == 5         \* longest item list given to the pager on its own
MaxPageArg == 4       \* largest page index requested from the pager on its own
MaxRefId == 15        \* ids ever given to rows of activities / locations
MaxEntries == 2       \* rows ever stored by save_entry

-----------------------------------------------------------------------------
(* Python values.                                                          *)

None == <<>>
Some(v) == <<v>>

Get(d, k, default) == IF k \in DOMAIN d THEN d[k] ELSE default
Put(d, k, v) == [x \in (DOMAIN d) \cup {k} |-> IF x = k THEN v ELSE d[x]]
EmptyDict == [x \in {} |-> 0]

Max(a, b) == IF a >= b THEN a ELSE b
Min(a, b) == IF a <= b THEN a ELSE b

Digit == <<"0", "1", "2", "3", "4", "5", "6", "7", "8", "9">>

RECURSIVE NatStr(_)
NatStr(n) == IF n < 10 THEN Digit[n + 1]
             ELSE NatStr(n \div 10) \o Digit[(n % 10) + 1]

\* str(n) / f"{n}"
ToStr(n) == IF n < 0 THEN "-" \o NatStr(-n) ELSE NatStr(n)

NumTable == [n \in (-MaxNum)..MaxNum |-> ToStr(n)]

\* int(s) succeeds
IsInt(s) == \E n \in DOMAIN NumTable : NumTable[n] = s
\* int(s)
ParseInt(s) == CHOOSE n \in DOMAIN NumTable : NumTable[n] = s

\* s[a:b] for a list s (0-based, end-exclusive, negative indices from the end)
PyIndex(i, n) == IF i < 0 THEN Max(0, n + i) ELSE Min(i, n)
PySlice(s, a, b) ==
    LET lo == PyIndex(a, Len(s))
        hi == PyIndex(b, Len(s))
    IN  IF hi <= lo THEN <<>> ELSE SubSeq(s, lo + 1, hi)

-----------------------------------------------------------------------------
(* Outbound messages: client.send_message(to, text, buttons).  A text is   *)
(* the sequence of its parts (a tag for the literal, then the formatted    *)
(* values); a button is its title and its callback id.                     *)

Button(title, callback_data) == [title |-> title, callback_data |-> callback_data]
Msg(text, buttons) == [text |-> text, buttons |-> buttons]

TitlePrev == "<-"       \* "⬅️"
TitleNext == "->"       \* "➡️"
TitleBack == "back"     \* "🔙 Назад"
TitleMenu == "menu"     \* "🔙 Меню"

hours_options == <<1, 2, 3, 4, 5, 6, 7, 8, 9, 10, 12, 16, 20, 24>>

-----------------------------------------------------------------------------
(* Pagination helper.                                                      *)

base_capacity == 2

\* The make_button lambdas of the call sites; mk = [kind, arg].
MakeButton(mk, it) ==
    CASE mk.kind = "acts" ->
            Button(it[2], <<"work", "act", mk.arg, ToStr(it[1])>>)
      [] mk.kind = "locs" ->
            Button(it[2], <<"work", "loc", mk.arg, ToStr(it[1])>>)
      [] mk.kind = "hours" ->
            Button(ToStr(it), <<"work", "hours", ToStr(it)>>)
      [] mk.kind = "edit_hours" ->
            Button(ToStr(it), <<"edit", "h", ToStr(it)>>)

TotalPages(total_items) == (total_items + base_capacity - 1) \div base_capacity

\* page = max(0, min(page, total_pages - 1))
ClampPage(page, total_pages) == Max(0, Min(page, total_pages - 1))

\* The window starts where the page shown before left room.
PageStartFromRemainder(page) ==
    IF page > 0 /\ sent # <<>> /\ Len(sent[1].buttons) < 3
    THEN page * base_capacity - 1
    ELSE page * base_capacity

PageStartOverlap(page) == IF page > 0 THEN page * base_capacity - 1 ELSE 0

\* start = page * base_capacity
PageStart(page) == page * base_capacity

\* page_items = items[start:end]
PageItems(items, page) ==
    LET start == PageStart(page)
        end == Min(start + base_capacity, Len(items))
    IN  PySlice(items, start, end)

NavButtonsAlways(n_btns, state_key, page, total_pages) ==
    IF page > 0
    THEN <<Button(TitlePrev, <<"nav", state_key, ToStr(page - 1)>>)>>
    ELSE <<Button(TitleNext, <<"nav", state_key, ToStr(page + 1)>>)>>

\* One arrow at most: "if has_prev ... elif has_next ...".
NavButtons(n_btns, state_key, page, total_pages) ==
    LET has_prev == page > 0
        has_next == page < total_pages - 1
    IN  IF has_prev /\ n_btns < 3
        THEN <<Button(TitlePrev, <<"nav", state_key, ToStr(page - 1)>>)>>
        ELSE IF has_next /\ n_btns < 3
        THEN <<Button(TitleNext, <<"nav", state_key, ToStr(page + 1)>>)>>
        ELSE <<>>

\* if back_cb and len(btns) < 3: btns.append(back)
BackButtons(n_btns, back_cb) ==
    IF back_cb # None /\ n_btns < 3
    THEN <<Button(TitleBack, back_cb[1])>>
    ELSE <<>>

EmptyListMessagesWithBack(text, back_cb) ==
    <<Msg(text \o <<"list_empty">>,
          IF back_cb # None THEN <<Button(TitleBack, back_cb[1])>> ELSE <<>>)>>

\* if not items: send_message(text + "(Список пуст)"); return
EmptyListMessages(text, back_cb) == <<Msg(text \o <<"list_empty">>, <<>>)>>

\* Every control that applies, and no cap.
SendPaginatedButtonsNaive(text, items, mk, state_key, page0, back_cb) ==
    IF items = <<>>
    THEN EmptyListMessages(text, back_cb)
    ELSE
      LET total_pages == TotalPages(Len(items))
          page == ClampPage(page0, total_pages)
          page_items == PageItems(items, page)
          btns0 == [i \in 1..Len(page_items) |-> MakeButton(mk, page_items[i])]
          prev == IF page > 0
                  THEN <<Button(TitlePrev, <<"nav", state_key, ToStr(page - 1)>>)>>
                  ELSE <<>>
          next == IF page < total_pages - 1
                  THEN <<Button(TitleNext, <<"nav", state_key, ToStr(page + 1)>>)>>
                  ELSE <<>>
          back == IF back_cb # None THEN <<Button(TitleBack, back_cb[1])>> ELSE <<>>
      IN  <<Msg(text, btns0 \o prev \o next \o back)>>

\* The messages send_paginated_buttons sends.
SendPaginatedButtons(text, items, mk, state_key, page0, back_cb) ==
    IF items = <<>>
    THEN EmptyListMessages(text, back_cb)
    ELSE
      LET total_items == Len(items)
          total_pages == TotalPages(total_items)
          page == ClampPage(page0, total_pages)
          page_items == PageItems(items, page)
          btns0 == [i \in 1..Len(page_items) |-> MakeButton(mk, page_items[i])]
          btns1 == btns0 \o NavButtons(Len(btns0), state_key, page, total_pages)
          btns2 == btns1 \o BackButtons(Len(btns1), back_cb)
          page_info == IF total_pages > 1
                       THEN <<"page", ToStr(page + 1), ToStr(total_pages)>>
                       ELSE <<>>
      IN  <<Msg(text \o page_info, PySlice(btns2, 0, 3))>>

\* Navigation of the record editor: "if page > 0 ... elif page < total - 1".
EditNavButtons(page, total_records) ==
    IF total_records > 1
    THEN IF page > 0
         THEN <<Button(TitlePrev, <<"nav", "edit_records", ToStr(page - 1)>>)>>
         ELSE IF page < total_records - 1
         THEN <<Button(TitleNext, <<"nav", "edit_records", ToStr(page + 1)>>)>>
         ELSE <<>>
    ELSE <<>>

\* A row of user_recent_24h_reports:
\* (id, work_date, activity, location, hours, created_at).
\* The messages render_edit_records_page sends.
RenderEditRecordsPage(records, page0) ==
    IF records = <<>>
    THEN <<Msg(<<"no_records">>, <<>>)>>
    ELSE
      LET total_records == Len(records)
          p1 == IF page0 < 0 THEN 0 ELSE page0
          page == IF p1 >= total_records THEN total_records - 1 ELSE p1
          r == records[page + 1]
          text == <<"edit_record", ToStr(page + 1), ToStr(total_records),
                    ToStr(r[1]), r[2], r[4], r[3], ToStr(r[5]), ToStr(r[6])>>
          acts == <<Button("edit", <<"edit", "chg", ToStr(r[1]), r[2]>>),
                    Button("delete", <<"edit", "del", ToStr(r[1])>>)>>
          btns1 == acts \o EditNavButtons(page, total_records)
          btns2 == IF Len(btns1) < 3
                   THEN btns1 \o <<Button(TitleMenu, <<"menu", "root">>)>>
                   ELSE btns1
      IN  <<Msg(text, PySlice(btns2, 0, 3))>>

-----------------------------------------------------------------------------
(* Configuration and default reference data (lines 59-109).  Names are    *)
(* transliterated; Collation lists every name of the model in the order   *)
(* SQLite's "ORDER BY name" gives the original (UTF-8 bytes).              *)

Users == {"u1", "u2"}
ADMIN_IDS == {"u1"}
TZ == "Europe/Moscow"

GROUP_TECH == "tehnika"
GROUP_HAND == "ruchnaya"
GROUP_FIELDS == "polya"
GROUP_WARE == "sklad"

DEFAULT_FIELDS == <<"Severnoe", "Fazenda", "5 ga", "58 ga", "Fermerskoe", "Sad",
                    "Cheki N1", "Cheki N2", "Cheki N3", "Rogachi (b)", "Rogachi(M)",
                    "Vladimirova Arenda", "MTF">>
DEFAULT_TECH == <<"pahota", "chizelevanie", "diskovanie", "kultivaciya sploshnaya",
                  "kultivaciya mezhduryadnaya", "opryskivanie", "kombajn uborka",
                  "sev", "barnovanie">>
DEFAULT_HAND == <<"propolka", "sbor", "poliv", "montazh", "remont">>
WARE_NAME == "Sklad"

Collation ==
    <<"5 ga", "58 ga", "ab", "cancel", "Bob", "Vladimirova Arenda", "Ivanov Ivan",
      "MTF", "Petrov Petr", "Rogachi (b)", "Rogachi(M)",
      "Sad", "Severnoe", "Sklad", "Fazenda", "Fermerskoe", "Cheki N1", "Cheki N2",
      "Cheki N3",
      "barnovanie", "diskovanie", "kombajn uborka", "kultivaciya mezhduryadnaya",
      "kultivaciya sploshnaya", "montazh", "novoe pole", "opryskivanie", "pahota", "poliv",
      "propolka", "remont", "sbor", "sev", "uborka", "chizelevanie">>

Rank(name) == CHOOSE i \in 1..Len(Collation) : Collation[i] = name

Range(f) == {f[i] : i \in DOMAIN f}

\* The rows of a set, as a list in the order of key(row) (keys are distinct).
RECURSIVE SortBy(_, _)
SortBy(rows, key) ==
    IF rows = {} THEN <<>>
    ELSE LET first == CHOOSE r \in rows : \A q \in rows : key[r] <= key[q]
         IN  <<first>> \o SortBy(rows \ {first}, key)

\* "INSERT OR IGNORE INTO t(name, grp)" for each name of a list, in order.
RECURSIVE InsertOrIgnore(_, _, _, _)
InsertOrIgnore(table, counter, names, grp) ==
    IF names = <<>> THEN [rows |-> table, counter |-> counter]
    ELSE IF \E r \in table : r.name = Head(names)
         THEN InsertOrIgnore(table, counter, Tail(names), grp)
         ELSE InsertOrIgnore(
                table \cup {[id |-> counter + 1, name |-> Head(names), grp |-> grp]},
                counter + 1, Tail(names), grp)

\* init_db: the seeding of locations and activities.
SeedLocations(table, counter) ==
    LET a == InsertOrIgnore(table, counter, DEFAULT_FIELDS, GROUP_FIELDS)
    IN  InsertOrIgnore(a.rows, a.counter, <<WARE_NAME>>, GROUP_WARE)

SeedActivities(table, counter) ==
    LET a == InsertOrIgnore(table, counter, DEFAULT_TECH, GROUP_TECH)
    IN  InsertOrIgnore(a.rows, a.counter, DEFAULT_HAND, GROUP_HAND)

-----------------------------------------------------------------------------
(* State store (lines 115-132).                                            *)

NoState == "None"      \* the value None of the key "state"
NewEntry == [state |-> NoState, data |-> EmptyDict]

\* get_state: an absent entry is created
GetState(us, u) == IF u \in DOMAIN us THEN us ELSE Put(us, u, NewEntry)

\* a set_state that writes the state into every entry of the store
SetStateOfAll(us, u, state, data) ==
    LET us1 == GetState(us, u)
    IN  [v \in DOMAIN us1 |->
            [state |-> state,
             data |-> IF data = None THEN us1[v].data ELSE data[1]]]
\* set_state(user_id, state, data): data = None keeps the stored data
SetState(us, u, state, data) ==
    LET us1 == GetState(us, u)
    IN  Put(us1, u, [state |-> state,
                     data |-> IF data = None THEN us1[u].data ELSE data[1]])

\* a clear_state that resets the state and keeps the data
ClearStateKeepingData(us, u) == Put(us, u, [GetState(us, u)[u] EXCEPT !.state = NoState])
\* clear_state
ClearState(us, u) == Put(us, u, NewEntry)

-----------------------------------------------------------------------------
(* Tables (lines 234-399).  A users row keeps full_name (NULL is None);    *)
(* tz and created_at are written and never read by a handler.              *)

\* upsert_user
UpsertUser(tbl, u, full_name) == Put(tbl, u, [full_name |-> full_name])

\* get_user: None, or the row
GetUser(tbl, u) == IF u \in DOMAIN tbl THEN Some(tbl[u]) ELSE None

\* (u.get("full_name") or "")
FullNameOrEmpty(row) == IF row.full_name = None THEN "" ELSE row.full_name[1]

NotRegisteredOnlyIfAbsent(u_opt) == u_opt = None
\* not u or not (u.get("full_name") or "").strip()
NotRegistered(u_opt) == u_opt = None \/ FullNameOrEmpty(u_opt[1]) = ""

\* list_activities_with_id / list_locations_with_id
ListWithId(table, grp) ==
    LET rows == {r \in table : r.grp = grp}
        sorted == SortBy(rows, [r \in rows |-> Rank(r.name)])
    IN  [i \in 1..Len(sorted) |-> <<sorted[i].id, sorted[i].name>>]

\* a lookup that still knows the rows of the first seeding
GetNameByIdSeeded(table, id) ==
    LET all == table \cup SeedActivities({}, 0).rows
    IN  IF \E r \in all : r.id = id
        THEN LET r == CHOOSE r \in all : r.id = id IN Some(<<r.name, r.grp>>)
        ELSE None

\* get_activity_name / get_location_name: None, or (name, grp)
GetNameById(table, id) ==
    IF \E r \in table : r.id = id
    THEN LET r == CHOOSE r \in table : r.id = id IN Some(<<r.name, r.grp>>)
    ELSE None

\* insert_report
NewReport(id, created_at, u, reg_name, work, hours) ==
    [id |-> id, created_at |-> created_at, user_id |-> u, reg_name |-> reg_name,
     location |-> work.location, location_grp |-> work.loc_grp,
     activity |-> work.activity, activity_grp |-> work.grp,
     work_date |-> work.work_date, hours |-> hours]

RECURSIVE SumHours(_)
SumHours(rows) ==
    IF rows = {} THEN 0
    ELSE LET r == CHOOSE r \in rows : TRUE IN r.hours + SumHours(rows \ {r})

\* sum_hours_for_user_date: "if exclude_report_id:" is false for None and 0
SumHoursForUserDate(tbl, u, work_date, exclude_report_id) ==
    IF exclude_report_id # None /\ exclude_report_id[1] # 0
    THEN SumHours({r \in tbl : r.user_id = u /\ r.work_date = work_date
                               /\ r.id # exclude_report_id[1]})
    ELSE SumHours({r \in tbl : r.user_id = u /\ r.work_date = work_date})

\* user_recent_24h_reports: created within the last 24 hours (one tick of
\* the clock), latest first; rows (id, work_date, activity, location, hours,
\* created_at)
UserRecent24hReports(tbl, u, t) ==
    LET rows == {r \in tbl : r.user_id = u /\ r.created_at >= t - 1}
        sorted == SortBy(rows, [r \in rows |-> 0 - r.id])
    IN  [i \in 1..Len(sorted) |->
            <<sorted[i].id, sorted[i].work_date, sorted[i].activity,
              sorted[i].location, sorted[i].hours, sorted[i].created_at>>]

\* a delete by id alone
DeleteReportOfAnyone(tbl, rid, u) == {r \in tbl : r.id # rid}
\* delete_report: DELETE ... WHERE id=? AND user_id=?
DeleteReport(tbl, rid, u) == {r \in tbl : ~(r.id = rid /\ r.user_id = u)}

\* an update that writes a new row and drops the old one
UpdateByReplacing(tbl, rid, u, new_hours) ==
    {r \in tbl : ~(r.id = rid /\ r.user_id = u)} \cup
    {[r EXCEPT !.hours = new_hours, !.id = r.id + MaxReports]
        : r \in {x \in tbl : x.id = rid /\ x.user_id = u}}
\* update_report_hours: UPDATE ... SET hours=? WHERE id=? AND user_id=?
UpdateReportHours(tbl, rid, u, new_hours) ==
    {IF r.id = rid /\ r.user_id = u THEN [r EXCEPT !.hours = new_hours] ELSE r
        : r \in tbl}

\* cur.rowcount > 0 of either statement
RowMatched(tbl, rid, u) == \E r \in tbl : r.id = rid /\ r.user_id = u

\* date.today() - timedelta(days=i), as an ISO string
DateStr(day) == "D" \o ToStr(day)

-----------------------------------------------------------------------------
(* The state after construction: an empty state store, and the tables as   *)
(* init_db leaves a fresh database.                                        *)

\* The export runs: the scheduler's job and the admin's adm:export.  A run
\* that is not under way is at "idle" with the result of the run before.
Runners == {"sched", "admin"}
IdleRun(result) == [pc |-> "idle", batches |-> <<>>, records |-> <<>>, total |-> 0,
                    result |-> result]

\* An answered HTTP request: which program answered it, the method, the
\* request (three optional values: the query parameters hub.mode,
\* hub.verify_token and hub.challenge of a GET, the kind of body of a POST),
\* and the status and body of the response.
Response(impl, method, req, status, body) ==
    [impl |-> impl, method |-> method, req |-> req, status |-> status, body |-> body]
NoRequest == Response("", "", <<None, None, None>>, 0, None)

\* The request threads that can be inside work:hours or edit:h at once.  A
\* thread that is not between its cap check and its write is Idle.
Handlers == {"t1", "t2"}
Idle == [pc |-> "idle", user |-> "", data |-> <<>>, hours |-> 0, work |-> EmptyDict]

\* a calendar date, and no call for a monthly sheet yet
Date(year, month, day) == [year |-> year, month |-> month, day |-> day]
NoSheetCall == [fn |-> "none", today |-> Date(0, 0, 0), created |-> FALSE]

NoCall == [fn |-> "none", items |-> <<>>, page |-> 0, back_cb |-> None]
NoEvent == [user |-> "", kind |-> "none", data |-> <<>>]

\* The start of the process over a new database, on a day of the clock.
InitOn(day) ==
    /\ user_states = EmptyDict
    /\ users = EmptyDict
    /\ activities = SeedActivities({}, 0).rows
    /\ locations = SeedLocations({}, 0).rows
    /\ reports = {}
    /\ seq = [activities |-> SeedActivities({}, 0).counter,
              locations |-> SeedLocations({}, 0).counter,
              reports |-> 0]
    /\ now = day
    /\ sent = <<>>
    /\ last = NoEvent
    /\ raised = FALSE
    /\ pg_call = NoCall
    /\ pg_first = [call |-> NoCall, out |-> <<>>, later |-> FALSE]
    /\ fsm_states = EmptyDict
    /\ entries = <<>>
    /\ save_log = <<>>
    /\ google_exports = {}
    /\ monthly_sheets = {}
    /\ sheet_rows = EmptyDict
    /\ ex = [j \in Runners |-> IdleRun("none")]
    /\ http = NoRequest
    /\ pending = [h \in Handlers |-> Idle]
    /\ sheets_table = {}
    /\ sheet_call = NoSheetCall

Init == InitOn(0)

-----------------------------------------------------------------------------
(* Menus (lines 727-766).                                                  *)

IsAdminAnyone(u) == TRUE
is_admin(u) == u \in ADMIN_IDS

\* show_main_menu: name = (u or {}).get("full_name") or "-"
ShowMainMenu(u_opt) ==
    LET name == IF u_opt = None \/ FullNameOrEmpty(u_opt[1]) = ""
                THEN "-" ELSE FullNameOrEmpty(u_opt[1])
    IN  <<Msg(<<"main_menu", name>>,
              <<Button("work", <<"menu", "work">>),
                Button("stats", <<"menu", "stats">>),
                Button("more", <<"menu", "more">>)>>)>>

\* show_more_menu
ShowMoreMenu(u) ==
    LET buttons == <<Button("edit", <<"menu", "edit">>),
                     Button("name", <<"menu", "name">>)>>
                   \o (IF is_admin(u) THEN <<Button("admin", <<"menu", "admin">>)>>
                       ELSE <<>>)
        back == <<Button(TitleBack, <<"menu", "root">>)>>
    IN  <<Msg(<<"more_menu">>,
              IF Len(buttons) > 2 THEN PySlice(buttons, 0, 2) \o back
              ELSE buttons \o back)>>

\* the two date buttons and "back" (lines 1187-1194, 1239-1246)
DateButtons(today) ==
    <<Button("today", <<"work", "date", DateStr(today)>>),
      Button("yesterday", <<"work", "date", DateStr(today - 1)>>),
      Button(TitleBack, <<"menu", "work">>)>>

-----------------------------------------------------------------------------
(* handle_callback (lines 951-1462).  Each branch of the if/elif chain is  *)
(* an action Cb...(u, data): u is btn.from_user.wa_id, data the tokens of  *)
(* btn.data.                                                               *)

\* data.startswith("a:b:")
HasPrefix(data, pre) ==
    Len(data) >= Len(pre) + 1 /\ SubSeq(data, 1, Len(pre)) = pre

\* ":".join(tokens)
RECURSIVE Join(_)
Join(tokens) ==
    IF Len(tokens) = 1 THEN tokens[1]
    ELSE tokens[1] \o ":" \o Join(Tail(tokens))

\* data.split(":", 3) unpacks into four names
Split3Ok(data) == Len(data) >= 4
Split3Last(data) == Join(SubSeq(data, 4, Len(data)))

MsgStale == <<Msg(<<"stale_reopen_menu">>, <<>>)>>          \* "Команда устарела. Откройте меню заново."
MsgBroken == <<Msg(<<"stale_or_broken_reopen_menu">>, <<>>)>> \* "Команда устарела или повреждена. ..."
MsgNoRights == <<Msg(<<"no_rights">>, <<>>)>>

\* What every handler leaves behind: the messages, the event, no exception.
Handled(u, kind, data, msgs) ==
    /\ sent' = msgs
    /\ last' = [user |-> u, kind |-> kind, data |-> data]
    /\ raised' = FALSE
    /\ UNCHANGED <<now, pgVars, calVars, smVars, exVars, webVars>>

\* A branch that touches no table.
CbDone(u, data, us, msgs) ==
    /\ user_states' = us
    /\ Handled(u, "callback", data, msgs)
    /\ UNCHANGED dbVars

CbNav(u, data) ==
    /\ HasPrefix(data, <<"nav">>)
    /\ IF Len(data) < 3 \/ ~IsInt(data[3])
       THEN CbDone(u, data, user_states, MsgStale)
       ELSE
         LET us == GetState(user_states, u)
             d == us[u].data
             page == ParseInt(data[3])
             state_key == data[2]
         IN  CASE state_key = "acts" ->
                    CbDone(u, data, us,
                        SendPaginatedButtons(<<"pick_activity">>, Get(d, "acts", <<>>),
                            [kind |-> "acts", arg |-> Get(d, "acts_kind", "None")],
                            "acts", page, Some(<<"menu", "work">>)))
               [] state_key = "locs" ->
                    CbDone(u, data, us,
                        SendPaginatedButtons(<<"pick_location">>, Get(d, "locs", <<>>),
                            [kind |-> "locs", arg |-> Get(d, "locs_group", "None")],
                            "locs", page, Some(<<"menu", "work">>)))
               [] state_key = "hours" ->
                    CbDone(u, data, us,
                        SendPaginatedButtons(<<"pick_hours">>, Get(d, "hours_opts", <<>>),
                            [kind |-> "hours", arg |-> ""],
                            "hours", page, Some(<<"menu", "work">>)))
               [] state_key = "edit_records" ->
                    LET records == Get(d, "edit_records", <<>>)
                    IN  IF records = <<>>
                        THEN CbDone(u, data, us,
                                <<Msg(<<"no_records">>, <<>>)>>
                                \o ShowMainMenu(GetUser(users, u)))
                        ELSE CbDone(u, data, us, RenderEditRecordsPage(records, page))
               [] state_key = "edit_hours" ->
                    CbDone(u, data, us,
                        SendPaginatedButtons(
                            <<"new_hours_for",
                              IF "edit_id" \in DOMAIN d THEN ToStr(d["edit_id"]) ELSE "None",
                              Get(d, "edit_date", "None")>>,
                            Get(d, "edit_hours_opts", <<>>),
                            [kind |-> "edit_hours", arg |-> ""],
                            "edit_hours", page, Some(<<"menu", "edit">>)))
               [] OTHER -> CbDone(u, data, us, <<>>)

CbMenuRoot(u, data) ==
    /\ data = <<"menu", "root">>
    /\ CbDone(u, data, ClearState(user_states, u), ShowMainMenu(GetUser(users, u)))

CbMenuMore(u, data) ==
    /\ data = <<"menu", "more">>
    /\ CbDone(u, data, user_states, ShowMoreMenu(u))

CbMenuWork(u, data) ==
    /\ data = <<"menu", "work">>
    /\ IF NotRegistered(GetUser(users, u))
       THEN CbDone(u, data, SetState(user_states, u, "waiting_name", None),
                   <<Msg(<<"enter_name_to_register">>, <<>>)>>)
       ELSE CbDone(u, data, SetState(user_states, u, "pick_work_group", Some(EmptyDict)),
                   <<Msg(<<"pick_work_type">>,
                         <<Button("tech", <<"work", "grp", "tech">>),
                           Button("hand", <<"work", "grp", "hand">>),
                           Button(TitleBack, <<"menu", "root">>)>>)>>)

CbMenuStats(u, data) ==
    /\ data = <<"menu", "stats">>
    /\ CbDone(u, data, user_states,
              <<Msg(<<"pick_stats_period">>,
                    <<Button("today", <<"stats", "today">>),
                      Button("week", <<"stats", "week">>),
                      Button(TitleBack, <<"menu", "root">>)>>)>>)

CbMenuEdit(u, data) ==
    /\ data = <<"menu", "edit">>
    /\ LET rows == UserRecent24hReports(reports, u, now)
           us == GetState(user_states, u)
           d == Put(us[u].data, "edit_records", rows)
       IN  IF rows = <<>>
           THEN CbDone(u, data, user_states, <<Msg(<<"no_records_24h">>, <<>>)>>)
           ELSE CbDone(u, data, SetState(us, u, "viewing_edit", Some(d)),
                       RenderEditRecordsPage(rows, 0))

CbMenuName(u, data) ==
    /\ data = <<"menu", "name">>
    /\ CbDone(u, data, SetState(user_states, u, "waiting_name", None),
              <<Msg(<<"enter_name_to_change">>, <<>>)>>)

CbMenuAdmin(u, data) ==
    /\ data = <<"menu", "admin">>
    /\ IF ~is_admin(u)
       THEN CbDone(u, data, user_states, MsgNoRights)
       ELSE CbDone(u, data, user_states,
                   <<Msg(<<"admin_panel">>,
                         <<Button("activities", <<"adm", "menu", "activities">>),
                           Button("locations", <<"adm", "menu", "locations">>),
                           Button("export", <<"adm", "export">>)>>)>>)

CbAdmMenu(u, data) ==
    /\ data \in {<<"adm", "menu", "activities">>, <<"adm", "menu", "locations">>}
    /\ LET what == IF data[3] = "activities" THEN "act" ELSE "loc"
       IN  IF ~is_admin(u)
           THEN CbDone(u, data, user_states, MsgNoRights)
           ELSE CbDone(u, data, user_states,
                       <<Msg(<<"manage", data[3]>>,
                             <<Button("add", <<"adm", "add", what>>),
                               Button("delete", <<"adm", "del", what>>),
                               Button("admin", <<"menu", "admin">>)>>)>>)

\* stats:today / stats:week run cmd_today / cmd_my: one text, read-only
CbStats(u, data) ==
    /\ data \in {<<"stats", "today">>, <<"stats", "week">>}
    /\ CbDone(u, data, user_states,
              <<Msg(<<"stats", data[2], IF is_admin(u) THEN "all" ELSE "own">>, <<>>)>>)

CbWorkGrp(u, data) ==
    /\ HasPrefix(data, <<"work", "grp">>)
    /\ LET kind == data[3]
           grp_name == IF kind = "tech" THEN GROUP_TECH ELSE GROUP_HAND
           us == GetState(user_states, u)
           acts == ListWithId(activities, grp_name)
           d1 == Put(us[u].data, "work", [grp |-> grp_name])
           d2 == Put(Put(d1, "acts", acts), "acts_kind", kind)
       IN  CbDone(u, data, SetState(us, u, "pick_activity", Some(d2)),
                  SendPaginatedButtons(<<"pick_activity">>, acts,
                      [kind |-> "acts", arg |-> kind], "acts", 0,
                      Some(<<"menu", "work">>)))

CbWorkAct(u, data) ==
    /\ HasPrefix(data, <<"work", "act">>)
    /\ IF ~Split3Ok(data) \/ ~IsInt(Split3Last(data))
       THEN CbDone(u, data, user_states, MsgBroken)
       ELSE
         LET result == GetNameById(activities, ParseInt(Split3Last(data)))
             us == GetState(user_states, u)
             work0 == Get(us[u].data, "work", EmptyDict)
             work1 == Put(Put(work0, "grp", result[1][2]), "activity", result[1][1])
             d == Put(us[u].data, "work", work1)
         IN  IF result = None
             THEN CbDone(u, data, ClearState(user_states, u),
                         <<Msg(<<"activity_not_found_start_over">>, <<>>)>>)
             ELSE CbDone(u, data, SetState(us, u, "pick_loc_group", Some(d)),
                         <<Msg(<<"pick_location_group">>,
                               <<Button("fields", <<"work", "locgrp", "fields">>),
                                 Button("ware", <<"work", "locgrp", "ware">>),
                                 Button(TitleBack, <<"menu", "work">>)>>)>>)

CbWorkLocGrp(u, data) ==
    /\ HasPrefix(data, <<"work", "locgrp">>)
    /\ LET lg == data[3]
           grp == IF lg = "fields" THEN GROUP_FIELDS ELSE GROUP_WARE
           us == GetState(user_states, u)
           work1 == Put(Get(us[u].data, "work", EmptyDict), "loc_grp", grp)
       IN  IF lg = "ware"
           THEN LET d == Put(us[u].data, "work", Put(work1, "location", WARE_NAME))
                IN  CbDone(u, data, SetState(us, u, "pick_date", Some(d)),
                           <<Msg(<<"pick_date">>, DateButtons(now))>>)
           ELSE LET locs == ListWithId(locations, GROUP_FIELDS)
                    d1 == Put(us[u].data, "work", work1)
                    d2 == Put(Put(d1, "locs", locs), "locs_group", lg)
                IN  CbDone(u, data, SetState(us, u, "pick_location", Some(d2)),
                           SendPaginatedButtons(<<"pick_location">>, locs,
                               [kind |-> "locs", arg |-> lg], "locs", 0,
                               Some(<<"menu", "work">>)))

CbWorkLoc(u, data) ==
    /\ HasPrefix(data, <<"work", "loc">>)
    /\ IF ~Split3Ok(data) \/ ~IsInt(Split3Last(data))
       THEN CbDone(u, data, user_states, MsgBroken)
       ELSE
         LET result == GetNameById(locations, ParseInt(Split3Last(data)))
             us == GetState(user_states, u)
             work0 == Get(us[u].data, "work", EmptyDict)
             work1 == Put(Put(work0, "loc_grp", result[1][2]), "location", result[1][1])
             d == Put(us[u].data, "work", work1)
         IN  IF result = None
             THEN CbDone(u, data, ClearState(user_states, u),
                         <<Msg(<<"location_not_found_start_over">>, <<>>)>>)
             ELSE CbDone(u, data, SetState(us, u, "pick_date", Some(d)),
                         <<Msg(<<"pick_date">>, DateButtons(now))>>)

CbWorkDate(u, data) ==
    /\ HasPrefix(data, <<"work", "date">>)
    /\ LET us == GetState(user_states, u)
           work1 == Put(Get(us[u].data, "work", EmptyDict), "work_date", data[3])
           d == Put(Put(us[u].data, "work", work1), "hours_opts", hours_options)
       IN  CbDone(u, data, SetState(us, u, "pick_hours", Some(d)),
                  SendPaginatedButtons(<<"pick_hours">>, hours_options,
                      [kind |-> "hours", arg |-> ""], "hours", 0,
                      Some(<<"menu", "work">>)))

WorkKeys == {"grp", "activity", "loc_grp", "location", "work_date"}

\* a cap test that looks at the submitted hours alone
ExceedsCapIgnoringAlready(already, hours) == hours > 24

\* if already + hours > 24
ExceedsCap(already, hours) == already + hours > 24

\* the cap message: the total so far, the attempt, the most that fits
MsgCap(tag, already, hours) ==
    <<Msg(<<tag, ToStr(already), ToStr(hours), ToStr(24 - already)>>, <<>>)>>

\* An exception leaves the handler: what was written before it stays.
CbRaised(u, data, us) ==
    /\ user_states' = us
    /\ sent' = <<>>
    /\ last' = [user |-> u, kind |-> "callback", data |-> data]
    /\ raised' = TRUE
    /\ UNCHANGED <<now, pgVars, calVars, dbVars, smVars, exVars, webVars>>

CbWorkHours(u, data) ==
    /\ HasPrefix(data, <<"work", "hours">>)
    /\ IF ~IsInt(data[3])
       THEN CbDone(u, data, user_states, MsgBroken)
       ELSE
         LET hours == ParseInt(data[3])
             us == GetState(user_states, u)
             work_data == Get(us[u].data, "work", EmptyDict)
             already == SumHoursForUserDate(reports, u, work_data["work_date"], None)
             u_opt == GetUser(users, u)
             rid == seq.reports + 1
         IN  IF ~(WorkKeys \subseteq DOMAIN work_data)
             THEN CbDone(u, data, ClearState(us, u),
                         <<Msg(<<"something_went_wrong_start_over">>, <<>>)>>)
             ELSE IF ExceedsCap(already, hours)
             THEN CbDone(u, data, us, MsgCap("hours_limit_exceeded", already, hours))
             ELSE IF u_opt = None
             THEN CbRaised(u, data, us)     \* u.get on None: AttributeError
             ELSE
               /\ seq.reports < MaxReports
               /\ reports' = reports \cup
                     {NewReport(rid, now, u, FullNameOrEmpty(u_opt[1]), work_data, hours)}
               /\ seq' = [seq EXCEPT !.reports = rid]
               /\ user_states' = ClearState(us, u)
               /\ Handled(u, "callback", data,
                     <<Msg(<<"saved", work_data["work_date"], work_data["location"],
                             work_data["activity"], ToStr(hours), ToStr(rid)>>, <<>>)>>
                     \o ShowMainMenu(u_opt))
               /\ UNCHANGED <<users, activities, locations>>

CbEditDel(u, data) ==
    /\ HasPrefix(data, <<"edit", "del">>)
    /\ IF ~IsInt(data[3])
       THEN CbDone(u, data, user_states, <<Msg(<<"cannot_parse_command">>, <<>>)>>)
       ELSE
         LET rid == ParseInt(data[3])
             ok == RowMatched(reports, rid, u)
             us == GetState(user_states, u)
             records == SelectSeq(Get(us[u].data, "edit_records", <<>>),
                                  LAMBDA r : r[1] # rid)
             us2 == Put(us, u, [us[u] EXCEPT !.data = Put(us[u].data, "edit_records", records)])
         IN  /\ reports' = DeleteReport(reports, rid, u)
             /\ user_states' = us2
             /\ Handled(u, "callback", data,
                   IF ok /\ records # <<>> THEN RenderEditRecordsPage(records, 0)
                   ELSE IF ok THEN <<Msg(<<"deleted_no_records">>, <<>>)>>
                   ELSE <<Msg(<<"could_not_delete">>, <<>>)>>)
             /\ UNCHANGED <<users, activities, locations, seq>>

CbEditChg(u, data) ==
    /\ HasPrefix(data, <<"edit", "chg">>)
    /\ IF ~Split3Ok(data) \/ ~IsInt(data[3])
       THEN CbDone(u, data, user_states, MsgBroken)
       ELSE
         LET rid == ParseInt(data[3])
             work_d == Split3Last(data)
             us == GetState(user_states, u)
             d == Put(Put(Put(us[u].data, "edit_id", rid), "edit_date", work_d),
                      "edit_hours_opts", hours_options)
         IN  CbDone(u, data, SetState(us, u, "edit_hours", Some(d)),
                    SendPaginatedButtons(<<"new_hours_for", ToStr(rid), work_d>>,
                        hours_options, [kind |-> "edit_hours", arg |-> ""],
                        "edit_hours", 0, Some(<<"menu", "edit">>)))

CbEditH(u, data) ==
    /\ HasPrefix(data, <<"edit", "h">>)
    /\ IF ~IsInt(data[3])
       THEN CbDone(u, data, user_states, MsgBroken)
       ELSE
         LET new_h == ParseInt(data[3])
             us == GetState(user_states, u)
             d == us[u].data
             rid == d["edit_id"]
             work_d == Get(d, "edit_date", "None")
             already == SumHoursForUserDate(reports, u, work_d, Some(rid))
             ok == RowMatched(reports, rid, u)
             tbl == UpdateReportHours(reports, rid, u, new_h)
             rows == UserRecent24hReports(tbl, u, now)
             cleared == ClearState(us, u)
         IN  IF "edit_id" \notin DOMAIN d        \* int(None): TypeError, caught
             THEN CbDone(u, data, us, <<Msg(<<"session_stale_reopen_menu">>, <<>>)>>)
             ELSE IF ExceedsCap(already, new_h)
             THEN CbDone(u, data, us, MsgCap("hours_limit_exceeded_edit", already, new_h))
             ELSE
               /\ reports' = tbl
               /\ UNCHANGED <<users, activities, locations, seq>>
               /\ IF ~ok
                  THEN /\ user_states' = us
                       /\ Handled(u, "callback", data, <<Msg(<<"could_not_update">>, <<>>)>>)
                  ELSE IF rows # <<>>
                  THEN /\ user_states' =
                            SetState(cleared, u, "viewing_edit",
                                     Some(Put(EmptyDict, "edit_records", rows)))
                       /\ Handled(u, "callback", data,
                             <<Msg(<<"updated">>, <<>>)>> \o RenderEditRecordsPage(rows, 0))
                  ELSE /\ user_states' = cleared
                       /\ Handled(u, "callback", data, <<Msg(<<"updated_no_records">>, <<>>)>>)

AdmAskData == {<<"adm", op, what>> : op \in {"add", "del"}, what \in {"act", "loc"}}

\* adm:add:act, adm:del:act, adm:add:loc, adm:del:loc
CbAdmAsk(u, data) ==
    /\ data \in AdmAskData
    /\ IF ~is_admin(u)
       THEN CbDone(u, data, user_states, MsgNoRights)
       ELSE CbDone(u, data,
                   SetState(user_states, u, "adm_wait_" \o data[3] \o "_" \o data[2], None),
                   <<Msg(<<"enter_name_to", data[2], data[3]>>, <<>>)>>)

\* data the if/elif chain has a branch for
KnownCallback(data) ==
    \/ HasPrefix(data, <<"nav">>)
    \/ data \in {<<"menu", "root">>, <<"menu", "more">>, <<"menu", "work">>,
                 <<"menu", "stats">>, <<"menu", "edit">>, <<"menu", "name">>,
                 <<"menu", "admin">>, <<"adm", "menu", "activities">>,
                 <<"adm", "menu", "locations">>, <<"stats", "today">>,
                 <<"stats", "week">>, <<"adm", "export">>}
    \/ data \in AdmAskData
    \/ \E pre \in {<<"work", "grp">>, <<"work", "act">>, <<"work", "locgrp">>,
                   <<"work", "loc">>, <<"work", "date">>, <<"work", "hours">>,
                   <<"edit", "del">>, <<"edit", "chg">>, <<"edit", "h">>} :
          HasPrefix(data, pre)

\* no branch matches: the handler returns having done nothing
CbUnknown(u, data) ==
    /\ ~KnownCallback(data)
    /\ CbDone(u, data, user_states, <<>>)

-----------------------------------------------------------------------------
(* handle_text (lines 1468-1540) with cmd_start and cmd_menu.  A text is   *)
(* one of the sample strings of TextTable, which records what strip(),     *)
(* lower(), len() and "' ' in" give for it.  The Cyrillic commands are     *)
(* written start_ru, menu_ru, today_ru, my_ru, cancel_ru.                  *)

TextRow(strip, lower, len, space) ==
    [strip |-> strip, lower |-> lower, len |-> len, space |-> space]

TextTable ==
    [raw \in {" Start ", "start_ru", "menu", "MENU", "menu_ru", "today", "my",
              "cancel", "Ivanov Ivan", "Petrov Petr ", "Bob", "ab", "uborka", "sev",
              "Sad", "novoe pole", "Cancel", "cancel_ru", "stop", "help", "hello",
              " ", "SEV"} |->
        CASE raw = " Start " -> TextRow("Start", "start", 5, FALSE)
          [] raw = " " -> TextRow("", "", 0, FALSE)
          [] raw = "SEV" -> TextRow("SEV", "sev", 3, FALSE)
          [] raw = "Cancel" -> TextRow("Cancel", "cancel", 6, FALSE)
          [] raw = "cancel_ru" -> TextRow(raw, raw, 6, FALSE)
          [] raw = "stop" -> TextRow(raw, raw, 4, FALSE)
          [] raw = "help" -> TextRow(raw, raw, 4, FALSE)
          [] raw = "hello" -> TextRow(raw, raw, 5, FALSE)
          [] raw = "MENU" -> TextRow("MENU", "menu", 4, FALSE)
          [] raw = "Ivanov Ivan" -> TextRow("Ivanov Ivan", "ivanov ivan", 11, TRUE)
          [] raw = "Petrov Petr " -> TextRow("Petrov Petr", "petrov petr", 11, TRUE)
          [] raw = "Bob" -> TextRow("Bob", "bob", 3, FALSE)
          [] raw = "ab" -> TextRow("ab", "ab", 2, FALSE)
          [] raw = "Sad" -> TextRow("Sad", "sad", 3, FALSE)
          [] raw = "novoe pole" -> TextRow("novoe pole", "novoe pole", 10, TRUE)
          [] raw = "start_ru" -> TextRow(raw, raw, 5, FALSE)
          [] raw = "menu_ru" -> TextRow(raw, raw, 4, FALSE)
          [] raw = "today" -> TextRow(raw, raw, 5, FALSE)
          [] raw = "cancel" -> TextRow(raw, raw, 6, FALSE)
          [] raw = "uborka" -> TextRow(raw, raw, 6, FALSE)
          [] raw = "menu" -> TextRow(raw, raw, 4, FALSE)
          [] raw = "my" -> TextRow(raw, raw, 2, FALSE)
          [] raw = "sev" -> TextRow(raw, raw, 3, FALSE)]

\* an insert without the UNIQUE constraint on name
AddNameUnchecked(table, name) == name # ""
\* add_activity / add_location: the row is inserted unless the name is
\* empty or taken (IntegrityError)
AddNameOk(table, name) == name # "" /\ ~\E r \in table : r.name = name
AddName(table, counter, grp, name) ==
    IF AddNameOk(table, name)
    THEN table \cup {[id |-> counter + 1, name |-> name, grp |-> grp]}
    ELSE table

\* remove_activity / remove_location
RemoveNameOk(table, name) == \E r \in table : r.name = name
RemoveName(table, name) == {r \in table : r.name # name}

TxDone(u, text, us, msgs) ==
    /\ user_states' = us
    /\ Handled(u, "text", <<text>>, msgs)
    /\ UNCHANGED dbVars

\* cmd_start: init_db(), upsert_user(user_id, None, TZ), then the name
\* prompt unless the stored name is non-empty
CmdStart(u, text) ==
    LET acts == SeedActivities(activities, seq.activities)
        locs == SeedLocations(locations, seq.locations)
        tbl == UpsertUser(users, u, None)
        u_opt == GetUser(tbl, u)
    IN  /\ acts.counter <= MaxRefId /\ locs.counter <= MaxRefId
        /\ activities' = acts.rows
        /\ locations' = locs.rows
        /\ seq' = [seq EXCEPT !.activities = acts.counter, !.locations = locs.counter]
        /\ users' = tbl
        /\ UNCHANGED reports
        /\ IF NotRegistered(u_opt)
           THEN /\ user_states' = SetState(user_states, u, "waiting_name", None)
                /\ Handled(u, "text", <<text>>, <<Msg(<<"enter_name_to_begin">>, <<>>)>>)
           ELSE /\ user_states' = user_states
                /\ Handled(u, "text", <<text>>, ShowMainMenu(u_opt))

TxStart(u, text) ==
    /\ TextTable[text].lower \in {"start", "start_ru"}
    /\ CmdStart(u, text)

\* cmd_menu
TxMenu(u, text) ==
    /\ TextTable[text].lower \in {"menu", "menu_ru"}
    /\ TxDone(u, text, user_states, ShowMainMenu(GetUser(users, u)))

\* cmd_today / cmd_my: one text, read-only
TxStats(u, text) ==
    /\ TextTable[text].lower \in {"today", "today_ru", "my", "my_ru"}
    /\ TxDone(u, text, user_states,
              <<Msg(<<"stats", TextTable[text].lower,
                      IF is_admin(u) THEN "all" ELSE "own">>, <<>>)>>)

IsCommand(text) ==
    TextTable[text].lower \in {"start", "start_ru", "menu", "menu_ru",
                               "today", "today_ru", "my", "my_ru"}

CurrentState(u) == GetState(user_states, u)[u].state

TxWaitingName(u, text) ==
    /\ ~IsCommand(text)
    /\ CurrentState(u) = "waiting_name"
    /\ LET t == TextTable[text]
           us == GetState(user_states, u)
           is_new_user == NotRegistered(GetUser(users, u))
           tbl == UpsertUser(users, u, Some(t.strip))
       IN  IF t.len < 3 \/ ~t.space
           THEN TxDone(u, text, us, <<Msg(<<"enter_surname_and_name">>, <<>>)>>)
           ELSE /\ users' = tbl
                /\ user_states' = ClearState(us, u)
                /\ Handled(u, "text", <<text>>,
                      <<Msg(<<IF is_new_user THEN "registered_as" ELSE "name_changed_to",
                              t.strip>>, <<>>)>>
                      \o ShowMainMenu(GetUser(tbl, u)))
                /\ UNCHANGED <<activities, locations, reports, seq>>

\* adm_wait_act_add / adm_wait_loc_add
TxAdmAdd(u, text) ==
    /\ ~IsCommand(text)
    /\ CurrentState(u) \in {"adm_wait_act_add", "adm_wait_loc_add"}
    /\ LET name == TextTable[text].strip
           us == GetState(user_states, u)
           isAct == CurrentState(u) = "adm_wait_act_add"
           ok == AddNameOk(IF isAct THEN activities ELSE locations, name)
       IN  /\ ok => (IF isAct THEN seq.activities ELSE seq.locations) < MaxRefId
           /\ activities' = IF isAct
                            THEN AddName(activities, seq.activities, GROUP_HAND, name)
                            ELSE activities
           /\ locations' = IF isAct THEN locations
                           ELSE AddName(locations, seq.locations, GROUP_FIELDS, name)
           /\ seq' = IF ~ok THEN seq
                     ELSE IF isAct THEN [seq EXCEPT !.activities = @ + 1]
                     ELSE [seq EXCEPT !.locations = @ + 1]
           /\ user_states' = ClearState(us, u)
           /\ Handled(u, "text", <<text>>,
                 <<Msg(<<IF ok THEN "added" ELSE "already_exists">>, <<>>)>>)
           /\ UNCHANGED <<users, reports>>

\* adm_wait_act_del / adm_wait_loc_del
TxAdmDel(u, text) ==
    /\ ~IsCommand(text)
    /\ CurrentState(u) \in {"adm_wait_act_del", "adm_wait_loc_del"}
    /\ LET name == TextTable[text].strip
           us == GetState(user_states, u)
           isAct == CurrentState(u) = "adm_wait_act_del"
           ok == RemoveNameOk(IF isAct THEN activities ELSE locations, name)
       IN  /\ activities' = IF isAct THEN RemoveName(activities, name) ELSE activities
           /\ locations' = IF isAct THEN locations ELSE RemoveName(locations, name)
           /\ user_states' = ClearState(us, u)
           /\ Handled(u, "text", <<text>>,
                 <<Msg(<<IF ok THEN "removed" ELSE "not_found">>, <<>>)>>)
           /\ UNCHANGED <<users, reports, seq>>

\* any other state: the main menu for a known user, cmd_start otherwise
TxDefault(u, text) ==
    /\ ~IsCommand(text)
    /\ CurrentState(u) \notin {"waiting_name", "adm_wait_act_add", "adm_wait_act_del",
                               "adm_wait_loc_add", "adm_wait_loc_del"}
    /\ IF GetUser(users, u) # None
       THEN TxDone(u, text, GetState(user_states, u), ShowMainMenu(GetUser(users, u)))
       ELSE /\ CmdStart(u, text)

\* the clock passes a 24-hour mark
Tick ==
    /\ now < MaxNow
    /\ now' = now + 1
    /\ UNCHANGED <<user_states, dbVars, sent, last, raised, pgVars, calVars, smVars, exVars,
                   webVars>>

-----------------------------------------------------------------------------
(* Recording work: registration and the work:* buttons, pressed in any     *)
(* order by the users of WorkUsers, with hour values the buttons offer     *)
(* (12, 16, 24), values only a crafted id carries (25, -4) and one that is *)
(* no number.                                                              *)

WorkUsers == {"u1"}
WorkTexts == {" Start ", "Ivanov Ivan", "Bob"}
WorkHourTokens == {"12", "16", "25", "abc"}
WorkDates == {DateStr(now), DateStr(now - 1)}
WorkData ==
    {<<"menu", "work">>, <<"work", "grp", "tech">>, <<"work", "act", "tech", "1">>,
     <<"work", "locgrp", "ware">>}
    \cup {<<"work", "date", d>> : d \in WorkDates}
    \cup {<<"work", "hours", h>> : h \in WorkHourTokens}

NextWork ==
    \/ \E u \in WorkUsers, text \in WorkTexts : TxStart(u, text)
    \/ \E u \in WorkUsers, text \in WorkTexts : TxWaitingName(u, text)
    \/ \E u \in WorkUsers, text \in WorkTexts : TxDefault(u, text)
    \/ \E u \in WorkUsers, data \in WorkData : CbMenuWork(u, data)
    \/ \E u \in WorkUsers, data \in WorkData : CbWorkGrp(u, data)
    \/ \E u \in WorkUsers, data \in WorkData : CbWorkAct(u, data)
    \/ \E u \in WorkUsers, data \in WorkData : CbWorkLocGrp(u, data)
    \/ \E u \in WorkUsers, data \in WorkData : CbWorkDate(u, data)
    \/ \E u \in WorkUsers, data \in WorkData : CbWorkHours(u, data)

SpecWork == Init /\ [][NextWork]_vars

-----------------------------------------------------------------------------
(* Everything that can touch the reports of one user: the registration,    *)
(* the menus, the selections of the work flow in any order, the arrows,    *)
(* work:hours with a value that fits and one that does not, and the        *)
(* editor's edit:chg, edit:h and edit:del.                                 *)

FrameUsers == {"u1"}
FrameTexts == {"Ivanov Ivan"}
FrameData ==
    {<<"menu", "root">>, <<"menu", "work">>, <<"work", "grp", "tech">>,
     <<"work", "act", "tech", "1">>, <<"work", "locgrp", "ware">>,
     <<"work", "date", DateStr(now)>>, <<"nav", "hours", "1">>,
     <<"work", "hours", "5">>, <<"work", "hours", "25">>,
     <<"menu", "edit">>, <<"edit", "del", "1">>, <<"edit", "chg", "1", DateStr(now)>>,
     <<"edit", "h", "20">>}

NextFrame ==
    \/ \E u \in FrameUsers, text \in FrameTexts : TxWaitingName(u, text)
    \/ \E u \in FrameUsers, text \in FrameTexts : TxDefault(u, text)
    \/ \E u \in FrameUsers, data \in FrameData : CbMenuRoot(u, data)
    \/ \E u \in FrameUsers, data \in FrameData : CbMenuWork(u, data)
    \/ \E u \in FrameUsers, data \in FrameData : CbWorkGrp(u, data)
    \/ \E u \in FrameUsers, data \in FrameData : CbWorkAct(u, data)
    \/ \E u \in FrameUsers, data \in FrameData : CbWorkLocGrp(u, data)
    \/ \E u \in FrameUsers, data \in FrameData : CbWorkDate(u, data)
    \/ \E u \in FrameUsers, data \in FrameData : CbNav(u, data)
    \/ \E u \in FrameUsers, data \in FrameData : CbWorkHours(u, data)
    \/ \E u \in FrameUsers, data \in FrameData : CbMenuEdit(u, data)
    \/ \E u \in FrameUsers, data \in FrameData : CbEditDel(u, data)
    \/ \E u \in FrameUsers, data \in FrameData : CbEditChg(u, data)
    \/ \E u \in FrameUsers, data \in FrameData : CbEditH(u, data)

SpecFrame == Init /\ [][NextFrame]_vars

-----------------------------------------------------------------------------
(* A user who presses only what the bot has just offered: after the        *)
(* registration every callback id is one of a control of the messages sent *)
(* last.  The lists of activities, locations and hour options are paged    *)
(* through their own arrows; the choice of the hours ends the walk.        *)

NavUsers == {"u1"}
NavTexts == {" Start ", "Ivanov Ivan"}
Offered ==
    UNION {{sent[i].buttons[j].callback_data : j \in DOMAIN sent[i].buttons} :
             i \in DOMAIN sent}

NextNav ==
    \/ \E u \in NavUsers, text \in NavTexts : TxStart(u, text)
    \/ \E u \in NavUsers, text \in NavTexts : TxWaitingName(u, text)
    \/ \E u \in NavUsers, data \in Offered : CbMenuRoot(u, data)
    \/ \E u \in NavUsers, data \in Offered : CbMenuMore(u, data)
    \/ \E u \in NavUsers, data \in Offered : CbMenuWork(u, data)
    \/ \E u \in NavUsers, data \in Offered : CbWorkGrp(u, data)
    \/ \E u \in NavUsers, data \in Offered : CbWorkAct(u, data)
    \/ \E u \in NavUsers, data \in Offered : CbWorkLocGrp(u, data)
    \/ \E u \in NavUsers, data \in Offered : CbWorkLoc(u, data)
    \/ \E u \in NavUsers, data \in Offered : CbWorkDate(u, data)
    \/ \E u \in NavUsers, data \in Offered : CbNav(u, data)

SpecNav == Init /\ [][NextNav]_vars

-----------------------------------------------------------------------------
(* Requests served by more than one thread.  Nothing orders two work:hours *)
(* handlers of one user: each runs the lines up to the cap check, and      *)
(* later the lines from get_user to the end, and the other thread and      *)
(* every other request can run in between.                                 *)

\* work:hours up to and including the cap check (lines 1275-1303) in the
\* thread h.  The paths that end there are those of CbWorkHours; one that
\* passes the check goes on with its locals hours and work_data.
WorkHoursCheck(h, u, data) ==
    /\ pending[h] = Idle
    /\ HasPrefix(data, <<"work", "hours">>)
    /\ LET us == GetState(user_states, u)
           work_data == Get(us[u].data, "work", EmptyDict)
       IN  IF \/ ~IsInt(data[3])
              \/ ~(WorkKeys \subseteq DOMAIN work_data)
              \/ ExceedsCap(SumHoursForUserDate(reports, u, work_data["work_date"], None),
                            ParseInt(data[3]))
           THEN CbWorkHours(u, data)
           ELSE /\ pending' = [pending EXCEPT ![h] =
                                  [pc |-> "checked", user |-> u, data |-> data,
                                   hours |-> ParseInt(data[3]), work |-> work_data]]
                /\ user_states' = us
                /\ UNCHANGED <<dbVars, now, sent, last, raised, pgVars, calVars, smVars, exVars,
                               http>>

\* work:hours from get_user to the end (lines 1305-1326) in the thread h
WorkHoursWrite(h) ==
    /\ pending[h].pc = "checked"
    /\ LET u == pending[h].user
           work_data == pending[h].work
           hours == pending[h].hours
           u_opt == GetUser(users, u)
           rid == seq.reports + 1
       IN  /\ pending' = [pending EXCEPT ![h] = Idle]
           /\ last' = [user |-> u, kind |-> "callback", data |-> pending[h].data]
           /\ IF u_opt = None
              THEN /\ raised' = TRUE          \* u.get on None: AttributeError
                   /\ sent' = <<>>
                   /\ UNCHANGED <<user_states, reports, seq>>
              ELSE /\ seq.reports < MaxReports
                   /\ reports' = reports \cup
                         {NewReport(rid, now, u, FullNameOrEmpty(u_opt[1]), work_data, hours)}
                   /\ seq' = [seq EXCEPT !.reports = rid]
                   /\ user_states' = ClearState(user_states, u)
                   /\ raised' = FALSE
                   /\ sent' = <<Msg(<<"saved", work_data["work_date"], work_data["location"],
                                      work_data["activity"], ToStr(hours), ToStr(rid)>>, <<>>)>>
                              \o ShowMainMenu(u_opt)
           /\ UNCHANGED <<users, activities, locations, now, pgVars, calVars, smVars, exVars, http>>

HoursUsers == {"u1"}
HoursTexts == {" Start ", "Ivanov Ivan"}
HoursData ==
    {<<"menu", "work">>, <<"work", "grp", "tech">>, <<"work", "act", "tech", "1">>,
     <<"work", "locgrp", "ware">>, <<"work", "date", DateStr(now)>>,
     <<"work", "hours", "16">>, <<"work", "hours", "25">>}

NextHours ==
    \/ \E u \in HoursUsers, text \in HoursTexts : TxStart(u, text)
    \/ \E u \in HoursUsers, text \in HoursTexts : TxWaitingName(u, text)
    \/ \E u \in HoursUsers, data \in HoursData : CbMenuWork(u, data)
    \/ \E u \in HoursUsers, data \in HoursData : CbWorkGrp(u, data)
    \/ \E u \in HoursUsers, data \in HoursData : CbWorkAct(u, data)
    \/ \E u \in HoursUsers, data \in HoursData : CbWorkLocGrp(u, data)
    \/ \E u \in HoursUsers, data \in HoursData : CbWorkDate(u, data)
    \/ \E h \in Handlers, u \in HoursUsers, data \in HoursData : WorkHoursCheck(h, u, data)
    \/ \E h \in Handlers : WorkHoursWrite(h)

SpecHours == Init /\ [][NextHours]_vars

-----------------------------------------------------------------------------
(* Correcting and deleting reports: one user records work for today and    *)
(* uses the edit:* buttons.  The ids of edit:chg carry a report id and a   *)
(* date; both come from the client, so every pairing of EditIds and        *)
(* EditDates can arrive.                                                   *)

EditUsers == {"u1"}
EditTexts == {"Ivanov Ivan"}
EditWorkHourTokens == {"5", "25"}
EditHourTokens == {"5", "20"}
EditIds == {"1"}
EditDates == {DateStr(now), DateStr(now - 1)}
EditData ==
    {<<"menu", "work">>, <<"work", "grp", "tech">>, <<"work", "act", "tech", "1">>,
     <<"work", "locgrp", "ware">>, <<"work", "date", DateStr(now)>>,
     <<"menu", "edit">>, <<"edit", "del", "1">>}
    \cup {<<"work", "hours", h>> : h \in EditWorkHourTokens}
    \cup {<<"edit", "chg", rid, d>> : rid \in EditIds, d \in EditDates}
    \cup {<<"edit", "h", h>> : h \in EditHourTokens}

NextEdit ==
    \/ \E u \in EditUsers, text \in EditTexts : TxWaitingName(u, text)
    \/ \E u \in EditUsers, data \in EditData : CbMenuWork(u, data)
    \/ \E u \in EditUsers, data \in EditData : CbWorkGrp(u, data)
    \/ \E u \in EditUsers, data \in EditData : CbWorkAct(u, data)
    \/ \E u \in EditUsers, data \in EditData : CbWorkLocGrp(u, data)
    \/ \E u \in EditUsers, data \in EditData : CbWorkDate(u, data)
    \/ \E u \in EditUsers, data \in EditData : CbWorkHours(u, data)
    \/ \E u \in EditUsers, data \in EditData : CbMenuEdit(u, data)
    \/ \E u \in EditUsers, data \in EditData : CbEditDel(u, data)
    \/ \E u \in EditUsers, data \in EditData : CbEditChg(u, data)
    \/ \E u \in EditUsers, data \in EditData : CbEditH(u, data)
    \/ Tick

SpecEdit == Init /\ [][NextEdit]_vars

-----------------------------------------------------------------------------
(* Unknown, stale and malformed ids: two users, the second one not yet     *)
(* registered, press well-formed buttons that move the conversation on,    *)
(* and ids no button of the bot carries.  The administrator can delete the *)
(* activity "sev" (id 8), after which work:act:tech:8 is a stale id.       *)

CbUsers == {"u1", "u2"}
CbTexts == {"Ivanov Ivan", "sev"}
BadData ==
    {<<"foo", "bar">>,
     <<"nav", "acts", "x">>, <<"nav", "zzz", "0">>,
     <<"work", "act", "tech", "x">>, <<"work", "act", "tech", "39">>,
     <<"work", "loc", "fields", "x">>, <<"work", "loc", "fields", "39">>,
     <<"work", "hours", "abc">>,
     <<"edit", "del", "x">>, <<"edit", "chg", "1">>, <<"edit", "h", "x">>}
CbData ==
    BadData \cup {<<"menu", "work">>, <<"work", "grp", "tech">>,
                  <<"work", "act", "tech", "8">>, <<"adm", "del", "act">>}

NextCb ==
    \/ \E u \in CbUsers, text \in CbTexts : TxWaitingName(u, text)
    \/ \E u \in CbUsers, text \in CbTexts : TxAdmDel(u, text)
    \/ \E u \in CbUsers, data \in CbData : CbMenuWork(u, data)
    \/ \E u \in CbUsers, data \in CbData : CbWorkGrp(u, data)
    \/ \E u \in CbUsers, data \in CbData : CbAdmAsk(u, data)
    \/ \E u \in CbUsers, data \in CbData : CbNav(u, data)
    \/ \E u \in CbUsers, data \in CbData : CbWorkAct(u, data)
    \/ \E u \in CbUsers, data \in CbData : CbWorkLoc(u, data)
    \/ \E u \in CbUsers, data \in CbData : CbWorkHours(u, data)
    \/ \E u \in CbUsers, data \in CbData : CbEditDel(u, data)
    \/ \E u \in CbUsers, data \in CbData : CbEditChg(u, data)
    \/ \E u \in CbUsers, data \in CbData : CbEditH(u, data)
    \/ \E u \in CbUsers, data \in CbData : CbUnknown(u, data)

SpecCb == Init /\ [][NextCb]_vars

-----------------------------------------------------------------------------
(* Reference data that changes under the buttons: the administrator        *)
(* deletes and adds the activity "sev" (id 8) and the location "Sad"       *)
(* (id 6) while work:act / work:loc ids arrive whose kind or group text    *)
(* is not the row's, and ids no row ever had.                              *)

RefUsers == {"u1"}
RefTexts == {"sev", "Sad"}
RefData ==
    AdmAskData \cup
    {<<"work", "act", "hand", "8">>, <<"work", "act", "tech", "39">>,
     <<"work", "loc", "ware", "6">>, <<"work", "loc", "fields", "39">>,
     <<"work", "act", "hand", "15">>}

NextRef ==
    \/ \E u \in RefUsers, text \in RefTexts : TxAdmAdd(u, text)
    \/ \E u \in RefUsers, text \in RefTexts : TxAdmDel(u, text)
    \/ \E u \in RefUsers, data \in RefData : CbAdmAsk(u, data)
    \/ \E u \in RefUsers, data \in RefData : CbWorkAct(u, data)
    \/ \E u \in RefUsers, data \in RefData : CbWorkLoc(u, data)

SpecRef == Init /\ [][NextRef]_vars

-----------------------------------------------------------------------------
(* The administrator's add and delete dialogues on their own: names that   *)
(* are in the tables from the start, a new one, an empty one, and for the  *)
(* deletion a name that differs from a row's in case only.                 *)

NameUsers == {"u1"}
NameAddTexts == {"sev", "Sad", "uborka", " "}
NameDelTexts == {"sev", "Sad", "uborka", " ", "SEV"}

NextNames ==
    \/ \E u \in NameUsers, data \in AdmAskData : CbAdmAsk(u, data)
    \/ \E u \in NameUsers, text \in NameAddTexts : TxAdmAdd(u, text)
    \/ \E u \in NameUsers, text \in NameDelTexts : TxAdmDel(u, text)

SpecNames == Init /\ [][NextNames]_vars

-----------------------------------------------------------------------------
(* Who curates the reference data: the administrator u1 and the user u2    *)
(* both press the add and delete buttons, send names, and send "start".    *)

CurateUsers == {"u1", "u2"}
CurateTexts == {"start_ru", "sev", "hello"}

NextCurate ==
    \/ \E u \in CurateUsers, data \in AdmAskData : CbAdmAsk(u, data)
    \/ \E u \in CurateUsers, text \in CurateTexts : TxStart(u, text)
    \/ \E u \in CurateUsers, text \in CurateTexts : TxWaitingName(u, text)
    \/ \E u \in CurateUsers, text \in CurateTexts : TxAdmAdd(u, text)
    \/ \E u \in CurateUsers, text \in CurateTexts : TxAdmDel(u, text)
    \/ \E u \in CurateUsers, text \in CurateTexts : TxDefault(u, text)

SpecCurate == Init /\ [][NextCurate]_vars

-----------------------------------------------------------------------------
(* Two users and their reports: u2 registers and records work for today;   *)
(* both users press edit:del, edit:chg and edit:h with the id of the       *)
(* first report.                                                           *)

OwnerUsers == {"u1", "u2"}
Recorders == {"u2"}
OwnerTexts == {"Ivanov Ivan"}
OwnerData ==
    {<<"menu", "work">>, <<"work", "act", "tech", "1">>, <<"work", "locgrp", "ware">>,
     <<"work", "date", DateStr(now)>>, <<"work", "hours", "5">>,
     <<"edit", "del", "1">>, <<"edit", "chg", "1", DateStr(now)>>, <<"edit", "h", "8">>}

NextOwner ==
    \/ \E u \in Recorders, text \in OwnerTexts : TxWaitingName(u, text)
    \/ \E u \in Recorders, data \in OwnerData : CbMenuWork(u, data)
    \/ \E u \in Recorders, data \in OwnerData : CbWorkAct(u, data)
    \/ \E u \in Recorders, data \in OwnerData : CbWorkLocGrp(u, data)
    \/ \E u \in Recorders, data \in OwnerData : CbWorkDate(u, data)
    \/ \E u \in Recorders, data \in OwnerData : CbWorkHours(u, data)
    \/ \E u \in OwnerUsers, data \in OwnerData : CbEditDel(u, data)
    \/ \E u \in OwnerUsers, data \in OwnerData : CbEditChg(u, data)
    \/ \E u \in OwnerUsers, data \in OwnerData : CbEditH(u, data)

SpecOwner == Init /\ [][NextOwner]_vars

-----------------------------------------------------------------------------
(* The hours of a report: one user records work and corrects it, with hour *)
(* values the buttons carry (8, 20) and values only an id typed by hand    *)
(* carries (11, 0, -4).                                                    *)

OptionUsers == {"u1"}
OptionTexts == {"Ivanov Ivan"}
OptionData ==
    {<<"menu", "work">>, <<"work", "act", "tech", "1">>, <<"work", "locgrp", "ware">>,
     <<"work", "date", DateStr(now)>>, <<"edit", "chg", "1", DateStr(now)>>}
    \cup {<<"work", "hours", h>> : h \in {"8", "11", "-4"}}
    \cup {<<"edit", "h", h>> : h \in {"20", "0"}}

NextOption ==
    \/ \E u \in OptionUsers, text \in OptionTexts : TxWaitingName(u, text)
    \/ \E u \in OptionUsers, data \in OptionData : CbMenuWork(u, data)
    \/ \E u \in OptionUsers, data \in OptionData : CbWorkAct(u, data)
    \/ \E u \in OptionUsers, data \in OptionData : CbWorkLocGrp(u, data)
    \/ \E u \in OptionUsers, data \in OptionData : CbWorkDate(u, data)
    \/ \E u \in OptionUsers, data \in OptionData : CbWorkHours(u, data)
    \/ \E u \in OptionUsers, data \in OptionData : CbEditChg(u, data)
    \/ \E u \in OptionUsers, data \in OptionData : CbEditH(u, data)

SpecOption == Init /\ [][NextOption]_vars

-----------------------------------------------------------------------------
(* The export to Google Sheets.  A run reads the reports without an export *)
(* record, and for each month appends their rows to the month's sheet and  *)
(* then inserts their export records in one transaction.  The calls to     *)
(* Google either fail before they change anything or succeed.              *)

\* datetime.fromisoformat(work_date), as the sheet name f"{year}-{month:02d}";
\* day 0 is the first day of 2026-11
DayOf(work_date) == CHOOSE d \in (0 - MaxNum)..MaxNum : DateStr(d) = work_date
ExportMonth(work_date) == IF DayOf(work_date) < 0 THEN "2026-10" ELSE "2026-11"

\* a selection that does not look at google_exports
GetAllReports(tbl, ge) ==
    LET sorted == SortBy(tbl, [r \in tbl |->
                     (DayOf(r.work_date) * (MaxNum + 1) + r.created_at) * (MaxNum + 1) + r.id])
    IN  [i \in 1..Len(sorted) |->
            [report_id |-> sorted[i].id, work_date |-> sorted[i].work_date,
             hours |-> sorted[i].hours]]

\* get_unexported_reports: LEFT JOIN google_exports ... WHERE ge.report_id
\* IS NULL ORDER BY r.work_date, r.created_at (then by id)
GetUnexportedReports(tbl, ge) ==
    LET rows == {r \in tbl : \A g \in ge : g.report_id # r.id}
        sorted == SortBy(rows, [r \in rows |->
                     (DayOf(r.work_date) * (MaxNum + 1) + r.created_at) * (MaxNum + 1) + r.id])
    IN  [i \in 1..Len(sorted) |->
            [report_id |-> sorted[i].id, work_date |-> sorted[i].work_date,
             hours |-> sorted[i].hours]]

\* the keys of reports_by_month, in the order of their first report
RECURSIVE MonthsOf(_)
MonthsOf(rows) ==
    IF rows = <<>> THEN <<>>
    ELSE <<ExportMonth(Head(rows).work_date)>>
         \o SelectSeq(MonthsOf(Tail(rows)),
                      LAMBDA m : m # ExportMonth(Head(rows).work_date))

\* reports_by_month
GroupByMonth(rows) ==
    [i \in 1..Len(MonthsOf(rows)) |->
        [sheet |-> MonthsOf(rows)[i],
         reports |-> SelectSeq(rows, LAMBDA r : ExportMonth(r.work_date) = MonthsOf(rows)[i])]]

\* export_reports_to_sheets up to the loop over the months
ExSelect(creds_ok) ==
    LET unexported == GetUnexportedReports(reports, google_exports)
    IN  IF unexported = <<>> THEN IdleRun("nothing_new")
        ELSE IF ~creds_ok THEN IdleRun("auth_error")
        ELSE [pc |-> "batch", batches |-> GroupByMonth(unexported), records |-> <<>>,
              total |-> 0, result |-> "none"]

\* the loop goes on to the next month, or the run returns its total
ExContinue(rest, total) ==
    IF rest = <<>> THEN IdleRun("exported_" \o ToStr(total))
    ELSE [pc |-> "batch", batches |-> rest, records |-> <<>>, total |-> total,
          result |-> "none"]

ExKept(run) == IF run.pc = "idle" /\ run.result = "export_error" THEN "failed" ELSE "none"

\* except Exception: the run returns 0 and the error; total_exported is
\* what the months before had counted
ExFailed(total) == [IdleRun("export_error") EXCEPT !.total = total]

\* date.today() on a day of the clock: day 0 is 2026-11-01, the days before
\* it are the last days of October; last_day - today.day
DaysUntilEnd(day) == IF day < 0 THEN 0 - 1 - day ELSE 29 - day
NextMonthSheet(day) == IF day < 0 THEN "2026-11" ELSE "2026-12"

\* check_and_create_next_month_sheet: the table monthly_sheets after it;
\* in the last days of a month the sheet of the next month is created
\* unless it has a row or the creation fails
CheckAndCreate(ms, day, create_ok) ==
    IF DaysUntilEnd(day) <= 3 /\ NextMonthSheet(day) \notin ms /\ create_ok
    THEN ms \cup {NextMonthSheet(day)}
    ELSE ms

\* the text after a finished run: its result, and the sheet created
ExResultText(run, ms, create_ok) ==
    <<"export_result", run.result>>
    \o (IF CheckAndCreate(ms, now, create_ok) # ms
        THEN <<"sheet_created", NextMonthSheet(now)>> ELSE <<>>)

\* the admin's run ends with its result as a message
ExSay(j, run, ms, create_ok) ==
    sent' = IF j = "admin" /\ run.pc = "idle"
            THEN sent \o <<Msg(ExResultText(run, ms, create_ok), <<>>)>>
            ELSE sent

\* a step of a run that leaves monthly_sheets as ms; a run that returns is
\* followed by check_and_create_next_month_sheet.  Of the result of a
\* finished run, which is logged or sent, only whether it was an export
\* error is kept
ExStep(j, run, ms) ==
    \E create_ok \in BOOLEAN :
        /\ ex' = [ex EXCEPT ![j] = [run EXCEPT !.result = ExKept(run)]]
        /\ monthly_sheets' = IF run.pc = "idle"
                             THEN CheckAndCreate(ms, now, create_ok) ELSE ms
        /\ ExSay(j, run, ms, create_ok)
        /\ UNCHANGED <<user_states, dbVars, now, last, raised, pgVars, calVars, smVars,
                       webVars>>

\* one month of the loop up to the append: get_or_create_monthly_sheet,
\* values().get, values().append
ExAppend(j) ==
    /\ ex[j].pc = "batch"
    /\ \E outcome \in {"ok", "no_sheet", "get_http_error", "get_error", "append_error"} :
        LET b == Head(ex[j].batches)
            existing == Get(sheet_rows, b.sheet, <<>>)
            next_row == IF outcome = "ok" THEN Len(existing) + 2 ELSE 2
            export_records ==
                [i \in 1..Len(b.reports) |->
                    [report_id |-> b.reports[i].report_id, sheet_name |-> b.sheet,
                     row_number |-> next_row + i - 1]]
        IN  IF outcome = "no_sheet"
            THEN /\ b.sheet \notin monthly_sheets
                 /\ ExStep(j, ExContinue(Tail(ex[j].batches), ex[j].total), monthly_sheets)
                 /\ UNCHANGED <<google_exports, sheet_rows>>
            ELSE /\ UNCHANGED google_exports
                 /\ IF outcome \in {"get_error", "append_error"}
                    THEN /\ ExStep(j, ExFailed(ex[j].total), monthly_sheets \cup {b.sheet})
                         /\ UNCHANGED sheet_rows
                    ELSE /\ sheet_rows' = Put(sheet_rows, b.sheet, existing \o b.reports)
                         /\ ExStep(j, [ex[j] EXCEPT !.pc = "record",
                                                    !.records = export_records],
                                   monthly_sheets \cup {b.sheet})

\* one commit at the end of the run: the records of a month that is not
\* the last are dropped
ExRecordLastMonthOnly(j) ==
    /\ ex[j].pc = "record"
    /\ google_exports' = IF Tail(ex[j].batches) = <<>>
                         THEN google_exports
                              \cup {ex[j].records[i] : i \in 1..Len(ex[j].records)}
                         ELSE google_exports
    /\ ExStep(j, ExContinue(Tail(ex[j].batches), ex[j].total + Len(ex[j].records)),
              monthly_sheets)
    /\ UNCHANGED sheet_rows

\* the INSERTs into google_exports of one month and their commit;
\* report_id is UNIQUE, a second row for a report raises and rolls back
ExRecord(j) ==
    /\ ex[j].pc = "record"
    /\ LET records == {ex[j].records[i] : i \in 1..Len(ex[j].records)}
       IN  IF \E rec \in records, g \in google_exports : g.report_id = rec.report_id
           THEN /\ ExStep(j, ExFailed(ex[j].total), monthly_sheets)
                /\ UNCHANGED <<google_exports, sheet_rows>>
           ELSE /\ google_exports' = google_exports \cup records
                /\ ExStep(j, ExContinue(Tail(ex[j].batches),
                                        ex[j].total + Len(ex[j].records)),
                          monthly_sheets)
                /\ UNCHANGED sheet_rows

\* scheduled_export
ScheduledExport ==
    /\ ex["sched"].pc = "idle"
    /\ \E creds_ok \in BOOLEAN : ExStep("sched", ExSelect(creds_ok), monthly_sheets)
    /\ UNCHANGED <<google_exports, sheet_rows>>

\* adm:export
CbAdmExport(u, data) ==
    /\ data = <<"adm", "export">>
    /\ ex["admin"].pc = "idle"
    /\ IF ~is_admin(u)
       THEN CbDone(u, data, user_states, MsgNoRights)
       ELSE \E creds_ok \in BOOLEAN, create_ok \in BOOLEAN :
            LET run == ExSelect(creds_ok)
            IN  /\ ex' = [ex EXCEPT !["admin"] = [run EXCEPT !.result = ExKept(run)]]
                /\ monthly_sheets' = IF run.pc = "idle"
                                     THEN CheckAndCreate(monthly_sheets, now, create_ok)
                                     ELSE monthly_sheets
                /\ sent' = <<Msg(<<"exporting">>, <<>>)>>
                           \o (IF run.pc = "idle"
                               THEN <<Msg(ExResultText(run, monthly_sheets, create_ok), <<>>)>>
                               ELSE <<>>)
                /\ last' = [user |-> u, kind |-> "callback", data |-> data]
                /\ raised' = FALSE
                /\ UNCHANGED <<user_states, dbVars, now, pgVars, calVars, smVars,
                               google_exports, sheet_rows, webVars>>

\* The scheduler's export runs, one at a time and between the requests of
\* one user who enters and deletes reports of two months.
ExportUsers == {"u1"}
ExportTexts == {"Ivanov Ivan"}
ExportData ==
    {<<"menu", "work">>, <<"work", "grp", "tech">>, <<"work", "act", "tech", "1">>,
     <<"work", "locgrp", "ware">>, <<"work", "date", DateStr(0)>>,
     <<"work", "date", DateStr(0 - 1)>>, <<"work", "hours", "5">>,
     <<"edit", "del", "1">>}
NoRun == \A j \in Runners : ex[j].pc = "idle"

NextExport ==
    \/ \E u \in ExportUsers, text \in ExportTexts : NoRun /\ TxWaitingName(u, text)
    \/ \E u \in ExportUsers, data \in ExportData : NoRun /\ CbMenuWork(u, data)
    \/ \E u \in ExportUsers, data \in ExportData : NoRun /\ CbWorkGrp(u, data)
    \/ \E u \in ExportUsers, data \in ExportData : NoRun /\ CbWorkAct(u, data)
    \/ \E u \in ExportUsers, data \in ExportData : NoRun /\ CbWorkLocGrp(u, data)
    \/ \E u \in ExportUsers, data \in ExportData : NoRun /\ CbWorkDate(u, data)
    \/ \E u \in ExportUsers, data \in ExportData : NoRun /\ CbWorkHours(u, data)
    \/ \E u \in ExportUsers, data \in ExportData : NoRun /\ CbEditDel(u, data)
    \/ NoRun /\ ScheduledExport
    \/ \E j \in Runners : ExAppend(j)
    \/ \E j \in Runners : ExRecord(j)

SpecExport == Init /\ [][NextExport]_vars

\* The scheduler's export job running while the requests of one admin are
\* served one at a time: the admin enters one report, corrects and deletes
\* it and starts an export.
RaceData ==
    {<<"menu", "work">>, <<"work", "grp", "tech">>, <<"work", "act", "tech", "1">>,
     <<"work", "locgrp", "ware">>, <<"work", "date", DateStr(0)>>,
     <<"work", "hours", "5">>, <<"edit", "del", "1">>,
     <<"edit", "chg", "1", DateStr(0)>>, <<"edit", "h", "6">>, <<"adm", "export">>}
Serving == ex["admin"].pc = "idle"

Entering == Serving /\ seq.reports = 0

NextRace ==
    \/ \E u \in ExportUsers, text \in ExportTexts : Entering /\ TxWaitingName(u, text)
    \/ \E u \in ExportUsers, data \in RaceData : Entering /\ CbMenuWork(u, data)
    \/ \E u \in ExportUsers, data \in RaceData : Entering /\ CbWorkGrp(u, data)
    \/ \E u \in ExportUsers, data \in RaceData : Entering /\ CbWorkAct(u, data)
    \/ \E u \in ExportUsers, data \in RaceData : Entering /\ CbWorkLocGrp(u, data)
    \/ \E u \in ExportUsers, data \in RaceData : Entering /\ CbWorkDate(u, data)
    \/ \E u \in ExportUsers, data \in RaceData : Entering /\ CbWorkHours(u, data)
    \/ \E u \in ExportUsers, data \in RaceData : Serving /\ CbEditDel(u, data)
    \/ \E u \in ExportUsers, data \in RaceData : Serving /\ CbEditChg(u, data)
    \/ \E u \in ExportUsers, data \in RaceData : Serving /\ CbEditH(u, data)
    \/ \E u \in ExportUsers, data \in RaceData : CbAdmExport(u, data)
    \/ ScheduledExport
    \/ \E j \in Runners : ExAppend(j)
    \/ \E j \in Runners : ExRecord(j)

SpecRace == Init /\ [][NextRace]_vars

\* Exports started by the admin late in October and early in November; the
\* admin enters one report.
AdminDays == {0 - 4, 0}
AdminUsers == {"u1"}
AdminTexts == {"Ivanov Ivan"}
AdminData ==
    {<<"menu", "work">>, <<"work", "grp", "tech">>, <<"work", "act", "tech", "1">>,
     <<"work", "locgrp", "ware">>, <<"work", "date", DateStr(0 - 4)>>,
     <<"work", "hours", "5">>, <<"menu", "admin">>, <<"adm", "export">>}
InitAdmin == \E day \in AdminDays : InitOn(day)

NextAdmin ==
    \/ \E u \in AdminUsers, text \in AdminTexts : Entering /\ TxWaitingName(u, text)
    \/ \E u \in AdminUsers, data \in AdminData : Entering /\ CbMenuWork(u, data)
    \/ \E u \in AdminUsers, data \in AdminData : Entering /\ CbWorkGrp(u, data)
    \/ \E u \in AdminUsers, data \in AdminData : Entering /\ CbWorkAct(u, data)
    \/ \E u \in AdminUsers, data \in AdminData : Entering /\ CbWorkLocGrp(u, data)
    \/ \E u \in AdminUsers, data \in AdminData : Entering /\ CbWorkDate(u, data)
    \/ \E u \in AdminUsers, data \in AdminData : Entering /\ CbWorkHours(u, data)
    \/ \E u \in AdminUsers, data \in AdminData : Serving /\ CbMenuAdmin(u, data)
    \/ \E u \in AdminUsers, data \in AdminData : CbAdmExport(u, data)
    \/ ExAppend("admin")
    \/ ExRecord("admin")

SpecAdmin == InitAdmin /\ [][NextAdmin]_vars

\* The admin buttons pressed by the admin and by another user, who both
\* send names.
RightsUsers == {"u1", "u2"}
RightsTexts == {"sev"}
RightsData ==
    AdmAskData \cup
    {<<"menu", "admin">>, <<"adm", "menu", "activities">>, <<"adm", "menu", "locations">>,
     <<"adm", "export">>, <<"menu", "name">>}

NextRights ==
    \/ \E u \in RightsUsers, data \in RightsData : CbMenuName(u, data)
    \/ \E u \in RightsUsers, data \in RightsData : CbMenuAdmin(u, data)
    \/ \E u \in RightsUsers, data \in RightsData : CbAdmMenu(u, data)
    \/ \E u \in RightsUsers, data \in RightsData : CbAdmAsk(u, data)
    \/ \E u \in RightsUsers, text \in RightsTexts : TxWaitingName(u, text)
    \/ \E u \in RightsUsers, text \in RightsTexts : TxAdmAdd(u, text)
    \/ \E u \in RightsUsers, text \in RightsTexts : TxAdmDel(u, text)
    \/ \E u \in RightsUsers, data \in RightsData : CbAdmExport(u, data)

SpecRights == InitAdmin /\ [][NextRights]_vars

\* Text messages of one admin: commands, names and the reference prompts.
TextUsers == {"u1"}
TextTexts == {"start_ru", "menu", "cancel", "Ivanov Ivan", "ab"}

NextText ==
    \/ \E u \in TextUsers, text \in TextTexts : TxStart(u, text)
    \/ \E u \in TextUsers, text \in TextTexts : TxMenu(u, text)
    \/ \E u \in TextUsers, text \in TextTexts : TxWaitingName(u, text)
    \/ \E u \in TextUsers, text \in TextTexts : TxAdmAdd(u, text)
    \/ \E u \in TextUsers, text \in TextTexts : TxAdmDel(u, text)
    \/ \E u \in TextUsers, text \in TextTexts : TxDefault(u, text)
    \/ \E u \in TextUsers, data \in AdmAskData : CbAdmAsk(u, data)

SpecText == Init /\ [][NextText]_vars

-----------------------------------------------------------------------------
(* The simple conversation (src/menu_handlers.py).  Its state store        *)
(* utils.state and save_entry are not among the sources; they follow the   *)
(* state-store contract: get creates an empty state if absent, set         *)
(* changes the state and keeps the data, clear empties both.               *)

SmGet(st, p) == IF p \in DOMAIN st THEN st ELSE Put(st, p, NewEntry)
SmSet(st, p, state) == Put(SmGet(st, p), p, [SmGet(st, p)[p] EXCEPT !.state = state])
SmClear(st, p) == Put(st, p, NewEntry)
\* update_user_data(phone, key, value)
SmUpdate(st, p, k, v) ==
    Put(SmGet(st, p), p, [SmGet(st, p)[p] EXCEPT !.data = Put(@, k, v)])
\* get_user_data(phone, key, default)
SmData(st, p, k, default) == Get(SmGet(st, p)[p].data, k, default)

\* save_entry(phone, work, shift, hours) as a call
SaveCall(p, work, shift, hours, ok) ==
    [phone |-> p, work |-> work, shift |-> shift, hours |-> hours, ok |-> ok]

WORK_TYPES ==
    [id \in {"work_field", "work_zucchini", "work_potato", "work_other"} |->
        CASE id = "work_field" -> "Pole" [] id = "work_zucchini" -> "Kabachok"
          [] id = "work_potato" -> "Kartoshka" [] id = "work_other" -> "Drugoe"]
SHIFTS ==
    [id \in {"shift_1", "shift_2", "shift_3"} |->
        CASE id = "shift_1" -> "8-16" [] id = "shift_2" -> "16-00"
          [] id = "shift_3" -> "00-8"]
HOURS_OPTIONS ==
    [id \in {"hours_4", "hours_6", "hours_8", "hours_12"} |->
        CASE id = "hours_4" -> "4" [] id = "hours_6" -> "6"
          [] id = "hours_8" -> "8" [] id = "hours_12" -> "12"]

\* the rows of a list message, one per id
SmRows(ids) == [i \in 1..Len(ids) |-> Button(ids[i], <<ids[i]>>)]

\* handle_main_menu, handle_select_work, handle_select_shift,
\* handle_select_hours, handle_show_confirmation: set the state and send
\* its menu; the result is the store and the messages
SmPrompt(st, p, state) ==
    LET st1 == SmSet(st, p, state)
        work(d) == SmData(st1, p, "work", d)
        shift(d) == SmData(st1, p, "shift", d)
        hours(d) == SmData(st1, p, "hours", d)
    IN  [st |-> st1,
         out |-> <<
           CASE state = "MAIN_MENU" -> Msg(<<"welcome">>, <<>>)
             [] state = "SELECT_WORK" ->
                  Msg(<<"pick_work">>,
                      SmRows(<<"work_field", "work_zucchini", "work_potato", "work_other">>))
             [] state = "SELECT_SHIFT" ->
                  Msg(<<"pick_shift", work("Rabota")>>,
                      SmRows(<<"shift_1", "shift_2", "shift_3">>))
             [] state = "SELECT_HOURS" ->
                  Msg(<<"pick_hours", work("Rabota"), shift("Smena")>>,
                      SmRows(<<"hours_4", "hours_6", "hours_8", "hours_12">>))
             [] state = "CONFIRM_SAVE" ->
                  Msg(<<"confirm", work("-"), shift("-"), hours("-")>>,
                      <<Button("yes", <<"confirm_yes">>), Button("no", <<"confirm_no">>)>>)
         >>]

\* a text message and then the main menu
SmTextThenMain(st, p, tag) ==
    [st |-> SmPrompt(st, p, "MAIN_MENU").st,
     out |-> <<Msg(tag, <<>>)>> \o SmPrompt(st, p, "MAIN_MENU").out]

SmCancelKeepingData(st, p) == SmTextThenMain(st, p, <<"cancelled">>)
\* handle_text_message, the cancel vocabulary: clear_state, a text, the menu
SmCancel(st, p) == SmTextThenMain(SmClear(st, p), p, <<"cancelled">>)

\* What a handler of the simple conversation leaves behind.  Its caller is
\* webhook_receive (src/webhook.py 67-80), which was given a body with this
\* one message and answers 200 when the handler is back.
SmHandled(p, kind, data, r, log) ==
    /\ fsm_states' = r.st
    /\ sent' = r.out
    /\ last' = [user |-> p, kind |-> kind, data |-> <<data>>]
    /\ raised' = FALSE
    /\ save_log' = log
    /\ entries' = entries \o SelectSeq(log, LAMBDA c : c.ok)
    /\ http' = Response("webhook", "POST", <<Some("messages"), None, None>>,
                        200, Some("status_ok"))
    /\ UNCHANGED <<user_states, dbVars, now, pgVars, calVars, exVars, pending>>

\* handle_incoming_message, type text: handle_text_message
SmText(p, text) ==
    LET st == SmGet(fsm_states, p)
        text_lower == TextTable[text].lower
    IN  SmHandled(p, "sm_text", text,
          IF text_lower \in {"start", "start_ru", "menu_ru", "menu", "/start"}
          THEN SmPrompt(st, p, "MAIN_MENU")
          ELSE IF text_lower \in {"help", "help_ru", "/help"}
          THEN SmTextThenMain(st, p, <<"help">>)
          ELSE IF text_lower \in {"cancel", "cancel_ru", "stop_ru", "stop"}
          THEN SmCancel(st, p)
          ELSE SmTextThenMain(st, p, <<"not_understood">>),
          <<>>)

SmConfirmSaveKeepingState(st, p, confirmed, ok) ==
    IF ~confirmed
    THEN [r |-> SmTextThenMain(st, p, <<"save_cancelled">>), log |-> <<>>]
    ELSE [r |-> SmTextThenMain(SmClear(st, p), p, <<"saved">>),
          log |-> IF SmData(st, p, "work", "") = "" \/ SmData(st, p, "shift", "") = ""
                     \/ SmData(st, p, "hours", "") = ""
                  THEN <<>>
                  ELSE <<SaveCall(p, SmData(st, p, "work", ""), SmData(st, p, "shift", ""),
                                  SmData(st, p, "hours", ""), ok)>>]
SmConfirmSaveUnchecked(st, p, confirmed, ok) ==
    LET back(tag) == SmTextThenMain(SmClear(st, p), p, tag)
    IN  IF ~confirmed
        THEN [r |-> back(<<"save_cancelled">>), log |-> <<>>]
        ELSE [r |-> back(<<"saved">>),
              log |-> <<SaveCall(p, SmData(st, p, "work", ""), SmData(st, p, "shift", ""),
                                 SmData(st, p, "hours", ""), ok)>>]
\* handle_confirm_save(phone, confirmed): the store, the messages and the
\* calls of save_entry, whose outcome is ok
SmConfirmSave(st, p, confirmed, ok) ==
    LET work == SmData(st, p, "work", "")      \* "not work": absent or empty
        shift == SmData(st, p, "shift", "")
        hours == SmData(st, p, "hours", "")
        back(tag) == SmTextThenMain(SmClear(st, p), p, tag)
    IN  IF ~confirmed
        THEN [r |-> back(<<"save_cancelled">>), log |-> <<>>]
        ELSE IF work = "" \/ shift = "" \/ hours = ""
        THEN [r |-> back(<<"not_all_data">>), log |-> <<>>]
        ELSE [r |-> back(IF ok THEN <<"saved", work, shift, hours>>
                               ELSE <<"save_failed">>),
              log |-> <<SaveCall(p, work, shift, hours, ok)>>]

\* handle_incoming_message with a button_id: handle_button_click
SmButton(p, button_id) ==
    \E ok \in BOOLEAN :
        LET st == SmGet(fsm_states, p)
            c == SmConfirmSave(st, p, button_id = "confirm_yes", ok)
        IN  /\ Len(entries) + Len(c.log) <= MaxEntries
            /\ IF button_id \in {"confirm_yes", "confirm_no"}
               THEN SmHandled(p, "sm_button", button_id, c.r, c.log)
               ELSE /\ ok
                    /\ SmHandled(p, "sm_button", button_id,
                         CASE button_id = "main_menu" -> SmPrompt(st, p, "MAIN_MENU")
                           [] button_id = "help_menu" -> SmTextThenMain(st, p, <<"help">>)
                           [] button_id = "work_menu" -> SmPrompt(st, p, "SELECT_WORK")
                           [] button_id = "hours_menu" -> SmTextThenMain(st, p, <<"hours_info">>)
                           [] OTHER -> SmTextThenMain(st, p, <<"not_recognized">>),
                         <<>>)

\* a branch that goes on to the next state whatever the id
SmSelectUnchecked(st, p, list_id, table, key, state, next, error) ==
    SmPrompt(st, p, next)
\* one branch of handle_list_selection: a known id is stored under key and
\* key_id and the next state prompted, an unknown one re-prompts this state
SmSelect(st, p, list_id, table, key, state, next, error) ==
    IF list_id \in DOMAIN table
    THEN SmPrompt(SmUpdate(SmUpdate(st, p, key, table[list_id]), p, key \o "_id", list_id),
                  p, next)
    ELSE [st |-> SmPrompt(st, p, state).st,
          out |-> <<Msg(error, <<>>)>> \o SmPrompt(st, p, state).out]

\* handle_incoming_message with a list_id: handle_list_selection
SmList(p, list_id) ==
    LET st == SmGet(fsm_states, p)
        current_state == st[p].state
    IN  SmHandled(p, "sm_list", list_id,
          CASE current_state = "SELECT_WORK" ->
                 SmSelect(st, p, list_id, WORK_TYPES, "work", "SELECT_WORK",
                          "SELECT_SHIFT", <<"unknown_work">>)
            [] current_state = "SELECT_SHIFT" ->
                 SmSelect(st, p, list_id, SHIFTS, "shift", "SELECT_SHIFT",
                          "SELECT_HOURS", <<"unknown_shift">>)
            [] current_state = "SELECT_HOURS" ->
                 SmSelect(st, p, list_id, HOURS_OPTIONS, "hours", "SELECT_HOURS",
                          "CONFIRM_SAVE", <<"unknown_hours">>)
            [] OTHER -> SmTextThenMain(st, p, <<"error_start_over">>),
          <<>>)

\* The simple conversation of one phone.
SmPhones == {"p1"}
SmTexts == {"menu", " Start ", "Cancel", "cancel_ru", "stop", "help", "hello"}
SmButtons == {"main_menu", "help_menu", "work_menu", "hours_menu", "confirm_yes",
              "confirm_no", "other_btn"}
SmLists == {"work_field", "shift_2", "hours_8", "other_row"}

NextSm ==
    \/ \E p \in SmPhones, text \in SmTexts : SmText(p, text)
    \/ \E p \in SmPhones, button_id \in SmButtons : SmButton(p, button_id)
    \/ \E p \in SmPhones, list_id \in SmLists : SmList(p, list_id)

SpecSm == Init /\ [][NextSm]_vars

-----------------------------------------------------------------------------
(* The webhook endpoints of the two programs: src/bot.py and               *)
(* src/webhook.py.  A query parameter is None when the request has none.   *)

VERIFY_TOKEN == "secret"

\* Python's truth of an optional string
Truthy(o) == o # None /\ o # Some("")

\* src/bot.py webhook_verify: the status and body it returns
BotVerifyAnswer(mode, token, challenge) ==
    IF Truthy(mode) /\ Truthy(token)
    THEN IF mode = Some("subscribe") /\ token = Some(VERIFY_TOKEN)
         THEN [status |-> 200,
               body |-> IF Truthy(challenge) THEN challenge ELSE Some("ok")]
         ELSE [status |-> 403, body |-> Some("Forbidden")]
    ELSE [status |-> 400, body |-> Some("Bad Request")]

\* src/webhook.py webhook_verify: the status and body it returns
VerifyAnswer(mode, token, challenge) ==
    IF mode = Some("subscribe") /\ token = Some(VERIFY_TOKEN)
    THEN [status |-> 200, body |-> challenge]
    ELSE [status |-> 403, body |-> Some("Forbidden")]

\* The bodies of a POST: none, one that is no JSON, the JSON values {} and
\* [1], an object of the nested shape entry[].changes[].value.messages[],
\* an object with statuses only, and objects of the root shape whose
\* messages is [], is the number 5, or holds one message.
FalsyBodies == {"no_body", "invalid_json", "empty_object"}
WebBodies == FalsyBodies \cup {"json_list", "entry", "statuses", "messages_none",
                               "messages_number", "messages"}

\* src/bot.py webhook_handler: get_json(silent=True) gives None for a body
\* that is no JSON; handle_incoming_message runs inside try/except; the
\* answer is 200 on every path
BotHandlerAnswer(body, handler_raises) ==
    IF body \in FalsyBodies
    THEN [status |-> 200, body |-> Some("status_ok")]
    ELSE [status |-> 200, body |-> Some("status_ok")]

\* src/webhook.py webhook_receive for a body without messages to handle:
\* get_json() raises on a body that is no JSON (json_raises; a request
\* without a JSON body either raises or gives None, depending on the
\* framework's version), data.get raises on a list, iterating a number
\* raises; whatever is raised ends in the outer except
ReceiveAnswer(body, json_raises) ==
    IF body \in {"no_body", "invalid_json"} /\ json_raises
    THEN [status |-> 500, body |-> Some("status_error")]
    ELSE IF body \in FalsyBodies
    THEN [status |-> 400, body |-> Some("status_error")]
    ELSE IF body \in {"json_list", "messages_number"}
    THEN [status |-> 500, body |-> Some("status_error")]
    ELSE [status |-> 200, body |-> Some("status_ok")]

\* A request that changes nothing but is answered.
Answered(impl, method, req, a) ==
    /\ http' = Response(impl, method, req, a.status, a.body)
    /\ UNCHANGED <<user_states, dbVars, now, sent, last, raised, pgVars, calVars, smVars,
                   exVars, pending>>

BotWebhookVerify(mode, token, challenge) ==
    Answered("bot", "GET", <<mode, token, challenge>>,
             BotVerifyAnswer(mode, token, challenge))

WebhookVerify(mode, token, challenge) ==
    Answered("webhook", "GET", <<mode, token, challenge>>,
             VerifyAnswer(mode, token, challenge))

\* src/bot.py: the functions its handler sends the messages to
\* (send_main_menu, handle_main_menu_button, handle_shift_selection) are
\* not among the sources; whether they raise is an input
BotWebhookHandler(body, handler_raises) ==
    Answered("bot", "POST", <<Some(body), None, None>>,
             BotHandlerAnswer(body, handler_raises))

WebhookReceive(body, json_raises) ==
    /\ body # "messages"
    /\ json_raises => body \in {"no_body", "invalid_json"}
    /\ body = "invalid_json" => json_raises
    /\ Answered("webhook", "POST", <<Some(body), None, None>>,
                ReceiveAnswer(body, json_raises))

\* handle_incoming_message, a message that is no text and has neither a
\* button_id nor a list_id (menu_handlers.py 88-90)
SmUnsupported(p) ==
    SmHandled(p, "sm_other", "image",
              [st |-> SmGet(fsm_states, p), out |-> <<Msg(<<"unsupported">>, <<>>)>>],
              <<>>)

WebModes == {None, Some("subscribe"), Some("unsubscribe")}
WebTokens == {None, Some(VERIFY_TOKEN), Some("wrong")}
WebChallenges == {None, Some("c1")}
WebTexts == {"menu", "hello"}
WebButtons == {"work_menu"}
WebLists == {"work_field", "other_row"}

NextWeb ==
    \/ \E mode \in WebModes, token \in WebTokens, challenge \in WebChallenges :
          BotWebhookVerify(mode, token, challenge)
    \/ \E mode \in WebModes, token \in WebTokens, challenge \in WebChallenges :
          WebhookVerify(mode, token, challenge)
    \/ \E body \in WebBodies, handler_raises \in BOOLEAN :
          BotWebhookHandler(body, handler_raises)
    \/ \E body \in WebBodies, json_raises \in BOOLEAN : WebhookReceive(body, json_raises)
    \/ \E p \in SmPhones, text \in WebTexts : SmText(p, text)
    \/ \E p \in SmPhones, button_id \in WebButtons : SmButton(p, button_id)
    \/ \E p \in SmPhones, list_id \in WebLists : SmList(p, list_id)
    \/ \E p \in SmPhones : SmUnsupported(p)

SpecWeb == Init /\ [][NextWeb]_vars

-----------------------------------------------------------------------------
(* The monthly sheets by calendar date.  Table monthly_sheets holds one    *)
(* row per sheet created; a call either finds the month's row or creates   *)
(* the sheet in Google Drive and inserts its row.                          *)

IsLeap(year) == (year % 4 = 0 /\ year % 100 # 0) \/ year % 400 = 0
\* calendar.monthrange(year, month)[1]
LastDay(year, month) ==
    IF month = 2 THEN (IF IsLeap(year) THEN 29 ELSE 28)
    ELSE IF month \in {4, 6, 9, 11} THEN 30 ELSE 31

\* the month after, counted without the turn of the year
NextMonthNoRollover(year, month) == [year |-> year, month |-> month + 1]
\* next_year, next_month
NextMonth(year, month) ==
    IF month = 12 THEN [year |-> year + 1, month |-> 1]
    ELSE [year |-> year, month |-> month + 1]

\* SELECT ... FROM monthly_sheets WHERE year=? AND month=? finds a row
HasSheet(tbl, year, month) == \E r \in tbl : r.year = year /\ r.month = month

\* get_or_create_monthly_sheet: the table after the call and whether a
\* spreadsheet id is returned.  Without a row the sheet is created and its
\* row inserted, unless there are no credentials or a Google call fails.
GetOrCreateMonthlySheet(tbl, year, month, create_ok) ==
    IF HasSheet(tbl, year, month) THEN [tbl |-> tbl, found |-> TRUE]
    ELSE IF create_ok
    THEN [tbl |-> tbl \cup {[id |-> Cardinality(tbl) + 1, year |-> year, month |-> month]},
          found |-> TRUE]
    ELSE [tbl |-> tbl, found |-> FALSE]

\* check_and_create_next_month_sheet on the day today: the table after the
\* call and the flag it returns
CheckAndCreateNextMonthSheet(tbl, today, create_ok) ==
    LET days_until_end == LastDay(today.year, today.month) - today.day
        nxt == NextMonth(today.year, today.month)
    IN  IF days_until_end <= 3 /\ ~HasSheet(tbl, nxt.year, nxt.month)
        THEN [tbl |-> GetOrCreateMonthlySheet(tbl, nxt.year, nxt.month, create_ok).tbl,
              created |-> GetOrCreateMonthlySheet(tbl, nxt.year, nxt.month, create_ok).found]
        ELSE [tbl |-> tbl, created |-> FALSE]

\* date a is not after date b
DateLE(a, b) ==
    \/ a.year < b.year
    \/ a.year = b.year /\ a.month < b.month
    \/ a.year = b.year /\ a.month = b.month /\ a.day <= b.day

\* a call on a day not before the day of the call made last
SheetCall(fn, today, tbl, created) ==
    /\ DateLE(sheet_call.today, today)
    /\ sheets_table' = tbl
    /\ sheet_call' = [fn |-> fn, today |-> today, created |-> created]
    /\ UNCHANGED <<user_states, dbVars, now, sent, last, raised, pgVars, smVars,
                   exVars, webVars>>

\* the check at the end of an export run
SheetCheck(today, create_ok) ==
    SheetCall("check", today,
              CheckAndCreateNextMonthSheet(sheets_table, today, create_ok).tbl,
              CheckAndCreateNextMonthSheet(sheets_table, today, create_ok).created)

\* the sheet of the running month, asked for by an export of that month
SheetGet(today, create_ok) ==
    SheetCall("get_or_create", today,
              GetOrCreateMonthlySheet(sheets_table, today.year, today.month, create_ok).tbl,
              GetOrCreateMonthlySheet(sheets_table, today.year, today.month, create_ok).found)

\* The last days of a February of 28 and of 29 days, of a December and of
\* an April, on both sides of "3 days remain".
SheetDays ==
    {Date(2027, 2, 24), Date(2027, 2, 25), Date(2027, 2, 28),
     Date(2027, 12, 27), Date(2027, 12, 28), Date(2027, 12, 31),
     Date(2028, 2, 25), Date(2028, 2, 26), Date(2028, 2, 29),
     Date(2028, 4, 26), Date(2028, 4, 27), Date(2028, 4, 30)}

NextSheet ==
    \/ \E today \in SheetDays, create_ok \in BOOLEAN : SheetCheck(today, create_ok)
    \/ \E today \in SheetDays, create_ok \in BOOLEAN : SheetGet(today, create_ok)

SpecSheet == Init /\ [][NextSheet]_vars

-----------------------------------------------------------------------------
(* The pagination helper on its own: calls with every item list up to      *)
(* MaxItems items, every page index in -MaxPageArg..MaxPageArg, with and   *)
(* without a back control.                                                 *)

PgLists == {PySlice(hours_options, 0, n) : n \in 0..MaxItems}
PgPages == (-MaxPageArg)..MaxPageArg
PgBacks == {None, Some(<<"menu", "work">>)}

\* records of the editor: one row per item
PgRecords(items) ==
    [i \in 1..Len(items) |-> <<i, "d1", "sev", "Sad", items[i], 0>>]

PgOutput(call) ==
    IF call.fn = "send_paginated_buttons"
    THEN SendPaginatedButtons(<<"pick_hours">>, call.items, [kind |-> "hours", arg |-> ""],
                              "hours", call.page, call.back_cb)
    ELSE RenderEditRecordsPage(PgRecords(call.items), call.page)

\* A call of one of the two pagers with arguments drawn from the given sets.
PgCall(fn, lists, pages, backs) ==
    \E items \in lists, page \in pages, back_cb \in backs :
        /\ pg_call' = [fn |-> fn, items |-> items, page |-> page, back_cb |-> back_cb]
        /\ sent' = PgOutput(pg_call')
        /\ pg_first' = IF pg_first.call.fn # "none" /\ pg_call' # pg_first.call
                       THEN [pg_first EXCEPT !.later = TRUE]
                       ELSE pg_first
        /\ UNCHANGED <<user_states, dbVars, now, last, raised, smVars, exVars,
                       webVars, calVars>>

PgSend == PgCall("send_paginated_buttons", PgLists, PgPages, PgBacks)

PgRender == PgCall("render_edit_records_page", PgLists, PgPages, {None})

NextPage == PgSend \/ PgRender

SpecPage == Init /\ [][NextPage]_vars

\* The same calls, watched by an observer that keeps one call and what it
\* sent, and notes whether a different call was made afterwards.
PgSendAgain == PgCall("send_paginated_buttons", PgLists, 0..MaxPageArg, PgBacks)

PgRemember ==
    /\ pg_call.fn # "none"
    /\ pg_first.call.fn = "none"
    /\ pg_first' = [call |-> pg_call, out |-> sent, later |-> FALSE]
    /\ UNCHANGED <<user_states, dbVars, now, last, raised, pg_call, sent, smVars,
                   exVars, webVars, calVars>>

NextPageTwice == PgSendAgain \/ PgRemember

SpecPageTwice == Init /\ [][NextPageTwice]_vars

-----------------------------------------------------------------------------
(* Claims about the pagination helper.                                     *)

IsNav(b) == b.title \in {TitlePrev, TitleNext}
IsBack(b) == b.title \in {TitleBack, TitleMenu}
IsItem(b) == ~IsNav(b) /\ ~IsBack(b)
Titles(m) == {m.buttons[i].title : i \in DOMAIN m.buttons}
PgIsSend == pg_call.fn = "send_paginated_buttons"

\* C5: no message of send_paginated_buttons or render_edit_records_page
\* carries more than 3 controls, and none carries both a previous and a
\* next navigation control, whatever the item list and the page index.
C5_AtMostThreeControlsOneArrow ==
    \A i \in DOMAIN sent :
        /\ Len(sent[i].buttons) <= 3
        /\ ~(TitlePrev \in Titles(sent[i]) /\ TitleNext \in Titles(sent[i]))

\* A middle page of a three-page list with a back control: two items, an
\* arrow, and no room for anything else.
C5_Witness ==
    /\ PgIsSend /\ Len(pg_call.items) = 5 /\ pg_call.page = 1
    /\ pg_call.back_cb # None
    /\ Len(sent) = 1 /\ Len(sent[1].buttons) = 3
    /\ TitlePrev \in Titles(sent[1])

CeilHalf(n) == CHOOSE k \in 0..n : 2 * k >= n /\ 2 * (k - 1) < n

\* the item controls of a message, as the hour values they stand for
ShownItems(m) ==
    LET bs == SelectSeq(m.buttons, IsItem)
    IN  [i \in 1..Len(bs) |-> ParseInt(bs[i].callback_data[3])]

PgShownOnPage(items, q, back_cb) ==
    ShownItems(SendPaginatedButtons(<<"pick_hours">>, items, [kind |-> "hours", arg |-> ""],
                                    "hours", q, back_cb)[1])

\* C7: for a non-empty list of n items and any requested page p, the items
\* displayed are those with (0-based) indices [2p', min(2p'+2, n)), p' being
\* p clamped to [0, ceil(n/2)-1]; and every item is displayed on exactly one
\* of the pages 0..ceil(n/2)-1.
C7_PageWindow ==
    (PgIsSend /\ pg_call.items # <<>>) =>
        LET items == pg_call.items
            n == Len(items)
            last_page == CeilHalf(n) - 1
            p == IF pg_call.page < 0 THEN 0
                 ELSE IF pg_call.page > last_page THEN last_page
                 ELSE pg_call.page
            hi == IF 2 * p + 2 < n THEN 2 * p + 2 ELSE n
        IN  /\ Len(sent) = 1
            /\ ShownItems(sent[1]) = [i \in 1..(hi - 2 * p) |-> items[2 * p + i]]
            /\ \A k \in 1..n :
                 Cardinality({q \in 0..last_page :
                     \E j \in DOMAIN PgShownOnPage(items, q, pg_call.back_cb) :
                         PgShownOnPage(items, q, pg_call.back_cb)[j] = items[k]}) = 1

\* A request past the end of a 5-item list is served by the last page, which
\* holds the single fifth item.
C7_Witness ==
    /\ PgIsSend /\ Len(pg_call.items) = 5 /\ pg_call.page = 4
    /\ Len(sent) = 1 /\ ShownItems(sent[1]) = <<5>>

\* C8: a single page (1 or 2 items; the empty list is C9's case) carries no
\* navigation control, and a supplied back control follows the item
\* controls; a list of at most 2 items never gets a navigation control.
C8_SinglePageNoArrowBackLast ==
    (PgIsSend /\ Len(pg_call.items) <= 2) =>
        /\ \A i \in DOMAIN sent : \A j \in DOMAIN sent[i].buttons :
               ~IsNav(sent[i].buttons[j])
        /\ (Len(pg_call.items) >= 1 /\ pg_call.back_cb # None) =>
               LET bs == sent[1].buttons
                   n == Len(pg_call.items)
               IN  /\ Len(bs) = n + 1
                   /\ \A j \in 1..n : IsItem(bs[j])
                   /\ bs[n + 1] = Button(TitleBack, pg_call.back_cb[1])

\* Two items and a back control, on whatever page was asked for.
C8_Witness ==
    /\ PgIsSend /\ Len(pg_call.items) = 2 /\ pg_call.back_cb # None
    /\ pg_call.page = 3
    /\ Len(sent[1].buttons) = 3

\* C9: for the empty list send_paginated_buttons sends exactly one message,
\* a text without any control, whatever page was asked for and whether or
\* not a back control was supplied.
C9_EmptyListOneTextNoControls ==
    (PgIsSend /\ pg_call.items = <<>>) =>
        /\ Len(sent) = 1
        /\ sent[1].buttons = <<>>
        /\ sent[1].text = <<"pick_hours", "list_empty">>

C9_Witness ==
    /\ PgIsSend /\ pg_call.items = <<>> /\ pg_call.back_cb # None
    /\ pg_call.page = 2
    /\ Len(sent) = 1

-----------------------------------------------------------------------------
(* The daily cap of 24 hours.                                              *)

\* the hours a user has stored for a date
DaySum(tbl, u, d) == SumHours({r \in tbl : r.user_id = u /\ r.work_date = d})

\* state["data"].get("work", {}) of a user
WorkOf(u) == Get(GetState(user_states, u)[u].data, "work", EmptyDict)

\* the step handles the callback id pre:<integer>
StepOfInt(pre) ==
    /\ last'.kind = "callback"
    /\ HasPrefix(last'.data, pre)
    /\ IsInt(last'.data[3])

\* the step handles a work:hours submission that would exceed the cap
WorkHoursOverCap ==
    /\ StepOfInt(<<"work", "hours">>)
    /\ WorkKeys \subseteq DOMAIN WorkOf(last'.user)
    /\ DaySum(reports, last'.user, WorkOf(last'.user)["work_date"])
         + ParseInt(last'.data[3]) > 24

IsCapMessage(msgs, tag) == Len(msgs) = 1 /\ msgs[1].text[1] = tag

\* C1: over work:hours submissions the hours a user has stored for a date
\* never exceed 24, and a submission with already + hours > 24 is rejected
\* with the reports table left exactly as it was.
C1_WorkHoursNeverExceed24 ==
    /\ [](\A r \in reports : DaySum(reports, r.user_id, r.work_date) <= 24)
    /\ [][WorkHoursOverCap =>
            /\ reports' = reports
            /\ seq' = seq
            /\ IsCapMessage(sent', "hours_limit_exceeded")]_vars

\* Two submissions of 12 hours are stored and a third one has been rejected.
C1_Witness ==
    /\ last.data = <<"work", "hours", "12">>
    /\ sent = MsgCap("hours_limit_exceeded", 24, 12)
    /\ DaySum(reports, "u1", DateStr(now)) = 24
    /\ Cardinality(reports) = 2

\* C2: with work:hours submissions, edit:chg / edit:h corrections and
\* edit:del deletions, the hours stored for every (user_id, work_date) sum
\* to at most 24.
C2_SumAtMost24AfterEdits ==
    \A u \in Users : \A r \in reports :
        r.user_id = u => DaySum(reports, u, r.work_date) <= 24

\* the report a user's edit session points at, as a set (empty: none)
EditTarget(u) ==
    LET d == GetState(user_states, u)[u].data
    IN  IF "edit_id" \in DOMAIN d
        THEN {r \in reports : r.id = d["edit_id"] /\ r.user_id = u}
        ELSE {}

\* the response of edit:h that tells of an update
IsUpdated(msgs) == Len(msgs) >= 1 /\ msgs[1].text[1] \in {"updated", "updated_no_records"}

\* C3: an hour-correction of report X to new_h is accepted exactly when the
\* hours of the user's other reports on X's date plus new_h are at most 24.
C3_EditAcceptedIffOthersFit ==
    [][\A x \in EditTarget(last'.user) :
          StepOfInt(<<"edit", "h">>) =>
             LET new_h == ParseInt(last'.data[3])
                 others == SumHours({r \in reports : r.user_id = x.user_id
                                        /\ r.work_date = x.work_date /\ r.id # x.id})
             IN  (IsUpdated(sent') /\ reports' = UpdateReportHours(reports, x.id, x.user_id, new_h))
                 <=> (others + new_h <= 24)]_vars

\* the data of a user's edit session
EditOf(u) == GetState(user_states, u)[u].data

\* what edit:h computes as "already" for a user's edit session
EditAlready(u) ==
    SumHoursForUserDate(reports, u, Get(EditOf(u), "edit_date", "None"),
                        Some(EditOf(u)["edit_id"]))

WorkAlready(u) == SumHoursForUserDate(reports, u, WorkOf(u)["work_date"], None)

\* the step handles work:hours:<h> / edit:h:<h> with everything the cap
\* check needs in the user's data
WorkHoursStep ==
    StepOfInt(<<"work", "hours">>) /\ WorkKeys \subseteq DOMAIN WorkOf(last'.user)
EditHoursStep ==
    StepOfInt(<<"edit", "h">>) /\ "edit_id" \in DOMAIN EditOf(last'.user)

\* C4: a submission or correction rejected for the cap leaves the user's
\* state and data as they were and reports already and 24 - already; the
\* same user's next submission of an h with already + h <= 24 is accepted.
C4_CapRejectionKeepsFlow ==
    [][LET u == last'.user
           h == ParseInt(last'.data[3])
       IN  /\ (WorkHoursStep /\ WorkAlready(u) + h > 24) =>
                 /\ user_states' = user_states
                 /\ sent' = MsgCap("hours_limit_exceeded", WorkAlready(u), h)
           /\ (EditHoursStep /\ EditAlready(u) + h > 24) =>
                 /\ user_states' = user_states
                 /\ sent' = MsgCap("hours_limit_exceeded_edit", EditAlready(u), h)
           /\ (/\ IsCapMessage(sent, "hours_limit_exceeded") /\ last.user = u
               /\ WorkHoursStep /\ WorkAlready(u) + h <= 24) =>
                 /\ ~raised'
                 /\ Len(sent') >= 1 /\ sent'[1].text[1] = "saved"
                 /\ \E r \in reports' \ reports : r.user_id = u /\ r.hours = h
           /\ (/\ IsCapMessage(sent, "hours_limit_exceeded_edit") /\ last.user = u
               /\ EditHoursStep /\ EditAlready(u) + h <= 24) =>
                 /\ ~raised'
                 /\ IsUpdated(sent')]_vars

-----------------------------------------------------------------------------
(* Unknown, stale and malformed ids.                                       *)

NavKeys == {"acts", "locs", "hours", "edit_records", "edit_hours"}

\* an id with an unknown prefix, a malformed composite id, or the id of an
\* activity or location that is not in its table
IsBadId(data) ==
    \/ ~KnownCallback(data)
    \/ /\ HasPrefix(data, <<"nav">>)
       /\ (Len(data) < 3 \/ ~IsInt(data[3]) \/ data[2] \notin NavKeys)
    \/ /\ HasPrefix(data, <<"work", "act">>)
       /\ (~Split3Ok(data) \/ ~IsInt(Split3Last(data))
           \/ GetNameById(activities, ParseInt(Split3Last(data))) = None)
    \/ /\ HasPrefix(data, <<"work", "loc">>)
       /\ (~Split3Ok(data) \/ ~IsInt(Split3Last(data))
           \/ GetNameById(locations, ParseInt(Split3Last(data))) = None)
    \/ /\ \E pre \in {<<"work", "hours">>, <<"edit", "del">>, <<"edit", "h">>} :
             HasPrefix(data, pre)
       /\ ~IsInt(data[3])
    \/ /\ HasPrefix(data, <<"edit", "chg">>)
       /\ (~Split3Ok(data) \/ ~IsInt(data[3]))

\* C10: an unknown, stale or malformed id is handled without an exception
\* escaping, answered with a message, and leaves the user's state None and
\* the data empty.
C10_BadIdRestartsAndClears ==
    [][(last'.kind = "callback" /\ IsBadId(last'.data)) =>
          /\ ~raised'
          /\ Len(sent') >= 1
          /\ GetState(user_states', last'.user)[last'.user] = NewEntry]_vars

-----------------------------------------------------------------------------
(* Reference ids in work:act and work:loc.                                 *)

\* the step handles a well-formed pre:<text>:<integer>
StepOfRef(pre) ==
    /\ last'.kind = "callback"
    /\ HasPrefix(last'.data, pre)
    /\ Split3Ok(last'.data) /\ IsInt(Split3Last(last'.data))

\* what the step must leave for the id of a row of table, or of no row
RefResolved(table, name_key, grp_key, not_found) ==
    LET u == last'.user
        id == ParseInt(Split3Last(last'.data))
        rows == {r \in table : r.id = id}
    IN  IF rows = {}
        THEN /\ sent' = <<Msg(<<not_found>>, <<>>)>>
             /\ user_states'[u] = NewEntry
        ELSE \A r \in rows :
                /\ user_states'[u].data["work"][name_key] = r.name
                /\ user_states'[u].data["work"][grp_key] = r.grp

\* C11: work:act / work:loc look the id up in the table as it is now: an
\* absent id gets the not-found message and a cleared state with no work
\* data; a present id records the row's name and group, whatever kind or
\* group text the id carries.
C11_RefIdResolvedAgainstStore ==
    [][/\ StepOfRef(<<"work", "act">>) =>
            RefResolved(activities, "activity", "grp", "activity_not_found_start_over")
       /\ StepOfRef(<<"work", "loc">>) =>
            RefResolved(locations, "location", "loc_grp", "location_not_found_start_over")]_vars

\* "sev" was deleted and added again (id 15): the old id 8 is not found,
\* and nothing of the work recorded before is left.
C11_Witness ==
    /\ last.data = <<"work", "act", "hand", "8">>
    /\ sent = <<Msg(<<"activity_not_found_start_over">>, <<>>)>>
    /\ \E r \in activities : r.name = "sev" /\ r.id = 15
    /\ user_states["u1"] = NewEntry

-----------------------------------------------------------------------------
(* The simple conversation: global text commands.                          *)

SmStep(kind) == last'.kind = kind /\ last'.user \in SmPhones
SmLower == TextTable[last'.data[1]].lower
SmAfter == fsm_states'[last'.user]
SmBefore == SmGet(fsm_states, last'.user)[last'.user]

\* C12: in the simple conversation a text of the global vocabulary is
\* handled before any state: "menu" and "start" leave the user in
\* MAIN_MENU, and "cancel", "otmena", "stop" clear state and data and then
\* leave the user in MAIN_MENU with the main menu as the last message.
C12_GlobalTextPreempts ==
    [][SmStep("sm_text") =>
        /\ SmLower \in {"menu", "start"} =>
             /\ SmAfter.state = "MAIN_MENU"
             /\ sent' = <<Msg(<<"welcome">>, <<>>)>>
        /\ SmLower \in {"cancel", "cancel_ru", "stop"} =>
             /\ SmAfter = [state |-> "MAIN_MENU", data |-> EmptyDict]
             /\ sent' = <<Msg(<<"cancelled">>, <<>>), Msg(<<"welcome">>, <<>>)>>
             /\ save_log' = <<>>]_vars

C12_Witness ==
    /\ last = [user |-> "p1", kind |-> "sm_text", data |-> <<"cancel_ru">>]
    /\ fsm_states["p1"] = [state |-> "MAIN_MENU", data |-> EmptyDict]
    /\ sent[1] = Msg(<<"cancelled">>, <<>>)

-----------------------------------------------------------------------------
(* The rich conversation: the texts "menu" and "cancel".                   *)

\* C13: in every state of the rich conversation the texts "menu" and
\* "cancel" are taken as commands: no user name and no activity or
\* location is added, changed or removed by them, and afterwards the
\* user's state is None and the data empty.
C13_MenuCancelClearState ==
    [][(last'.kind = "text" /\ TextTable[last'.data[1]].lower \in {"menu", "cancel"}) =>
          /\ <<users, activities, locations>>' = <<users, activities, locations>>
          /\ GetState(user_states', last'.user)[last'.user] = NewEntry]_vars

-----------------------------------------------------------------------------
(* The simple conversation: confirming and cancelling.                     *)

SmHas(d) == \A k \in {"work", "shift", "hours"} : Get(d, k, "") # ""

\* C14: confirm_yes with work, shift and hours in the data calls save_entry
\* exactly once with those values, and whether it succeeds or fails the
\* state is cleared and the user left in MAIN_MENU; a failed call stores
\* nothing.  With one of them missing save_entry is not called, an error
\* is sent, the state is cleared and the user left in MAIN_MENU.
C14_ConfirmYesSavesOnce ==
    [][(SmStep("sm_button") /\ last'.data[1] = "confirm_yes") =>
          LET d == SmBefore.data
          IN  /\ SmAfter = [state |-> "MAIN_MENU", data |-> EmptyDict]
              /\ SmHas(d) =>
                   /\ Len(save_log') = 1
                   /\ save_log' = <<SaveCall(last'.user, d["work"], d["shift"],
                                             d["hours"], save_log'[1].ok)>>
                   /\ entries' = IF save_log'[1].ok THEN entries \o save_log' ELSE entries
                   /\ sent'[1].text[1] = IF save_log'[1].ok THEN "saved" ELSE "save_failed"
              /\ ~SmHas(d) =>
                   /\ save_log' = <<>>
                   /\ entries' = entries
                   /\ sent'[1] = Msg(<<"not_all_data">>, <<>>)]_vars

C14_Witness ==
    /\ last = [user |-> "p1", kind |-> "sm_button", data |-> <<"confirm_yes">>]
    /\ save_log = <<SaveCall("p1", "Pole", "16-00", "8", TRUE)>>
    /\ entries = save_log
    /\ fsm_states["p1"] = [state |-> "MAIN_MENU", data |-> EmptyDict]

SmCancels ==
    \/ SmStep("sm_button") /\ last'.data[1] = "confirm_no"
    \/ SmStep("sm_text") /\ SmLower \in {"cancel", "cancel_ru", "stop"}

\* C15: cancelling the simple conversation, by confirm_no or by a cancel
\* text, from any state clears state and data, leaves the user in
\* MAIN_MENU, calls save_entry not at all and leaves the stored entries as
\* they were.
C15_CancelHasNoSideEffects ==
    [][SmCancels =>
          /\ SmAfter = [state |-> "MAIN_MENU", data |-> EmptyDict]
          /\ save_log' = <<>>
          /\ entries' = entries]_vars

C15_Witness ==
    /\ last = [user |-> "p1", kind |-> "sm_button", data |-> <<"confirm_no">>]
    /\ sent[1] = Msg(<<"save_cancelled">>, <<>>)
    /\ fsm_states["p1"] = [state |-> "MAIN_MENU", data |-> EmptyDict]
    /\ Len(entries) = 1

-----------------------------------------------------------------------------
(* The simple conversation: input outside a state's alphabet.              *)

SmUnknownInput ==
    \/ SmStep("sm_list") /\
         last'.data[1] \notin DOMAIN WORK_TYPES \cup DOMAIN SHIFTS \cup DOMAIN HOURS_OPTIONS
    \/ SmStep("sm_button") /\
         last'.data[1] \notin {"main_menu", "help_menu", "work_menu", "hours_menu",
                               "confirm_yes", "confirm_no"}
    \/ SmStep("sm_text") /\
         SmLower \notin {"start", "start_ru", "menu", "menu_ru", "/start", "help",
                         "help_ru", "/help", "cancel", "cancel_ru", "stop", "stop_ru"}

\* C16: in SELECT_WORK, SELECT_SHIFT, SELECT_HOURS and CONFIRM_SAVE an
\* unknown list id, an unknown button id or a free text sends the menu of
\* the current state again and leaves state and data as they were.
C16_UnknownInputReprompts ==
    [][(SmUnknownInput /\ SmBefore.state \in {"SELECT_WORK", "SELECT_SHIFT",
                                              "SELECT_HOURS", "CONFIRM_SAVE"}) =>
          /\ SmAfter = SmBefore
          /\ sent'[Len(sent')] =
               SmPrompt(fsm_states, last'.user, SmBefore.state).out[1]]_vars

-----------------------------------------------------------------------------
(* Registration.                                                           *)

TextStep == last'.kind = "text" /\ last'.user \in TextUsers
TextRaw == TextTable[last'.data[1]]
StateOf(us, u) == GetState(us, u)[u]

-----------------------------------------------------------------------------
(* The export: every report at most once.                                  *)

ExportSheets == {"2026-10", "2026-11"}
RowsOf(id) ==
    {<<n, i>> \in ExportSheets \X (1..(2 * (MaxReports + 1))) :
        /\ n \in DOMAIN sheet_rows
        /\ i <= Len(sheet_rows[n])
        /\ sheet_rows[n][i].report_id = id}
RecordsOf(id) == {g \in google_exports : g.report_id = id}
ReportIds == 1..seq.reports

\* C18: over export runs that do not overlap, failed ones included, every
\* report has at most one export record and at most one row in the
\* sheets, a run selects no report that has an export record, and once no
\* run is under way every report with a row has its export record.
C18_ExportedAtMostOnce ==
    /\ \A id \in ReportIds :
          /\ Cardinality(RecordsOf(id)) <= 1
          /\ Cardinality(RowsOf(id)) <= 1
          /\ (NoRun /\ RowsOf(id) # {}) => RecordsOf(id) # {}
    /\ \A j \in Runners : \A b \in 1..Len(ex[j].batches) :
          \A i \in 1..Len(ex[j].batches[b].reports) :
             (ex[j].pc = "batch") => RecordsOf(ex[j].batches[b].reports[i].report_id) = {}

C18_Witness ==
    /\ NoRun
    /\ Cardinality(reports) = 2
    /\ \A r \in reports : Cardinality(RecordsOf(r.id)) = 1 /\ Cardinality(RowsOf(r.id)) = 1
    /\ DOMAIN sheet_rows = ExportSheets

\* C19: while the scheduler's export job and the requests (entering,
\* correcting and deleting a report, the admin's adm:export) interleave,
\* every report has at most one row in the sheets and at most one export
\* record.
C19_ClaimedOnceUnderInterleaving ==
    \A id \in ReportIds :
        Cardinality(RowsOf(id)) <= 1 /\ Cardinality(RecordsOf(id)) <= 1

-----------------------------------------------------------------------------
(* The export: a failure after some months were done.                      *)

RunFails(j) == ex[j].pc # "idle" /\ ex'[j].pc = "idle" /\ ex'[j].result = "failed"
RunSelects(j) == ex[j].pc = "idle" /\ ex'[j].pc = "batch"
Selected(run) ==
    UNION {{run.batches[b].reports[i].report_id : i \in 1..Len(run.batches[b].reports)} :
              b \in 1..Len(run.batches)}

\* C20: when a run fails in the batch of some month, the export records
\* committed for the months before stay in the store, every row appended
\* has its record, and the next run selects none of those reports.
C20_FailureKeepsEarlierMonths ==
    [][\A j \in Runners :
          /\ google_exports \subseteq google_exports'
          /\ RunFails(j) =>
               /\ google_exports' = google_exports
               /\ \A id \in ReportIds : (RowsOf(id) # {})' => (RecordsOf(id) # {})'
          /\ RunSelects(j) =>
               \A g \in google_exports : g.report_id \notin Selected(ex'[j])]_vars

C20_Witness ==
    /\ ex["sched"] = [IdleRun("failed") EXCEPT !.total = 1]
    /\ \E g \in google_exports : g.sheet_name = "2026-10"
    /\ \E r \in reports : ExportMonth(r.work_date) = "2026-11" /\ RecordsOf(r.id) = {}

-----------------------------------------------------------------------------
(* The admin's export with nothing to export.                              *)

AdmExportStep ==
    /\ last'.kind = "callback" /\ last'.data = <<"adm", "export">>
    /\ ex["admin"].pc = "idle"

\* C21: when an admin presses adm:export while every report has its export
\* record, on any day of the month, the reply says that there is nothing
\* new to export, and no export record, no row of monthly_sheets and no
\* row of a sheet is added.
C21_NothingToExportNoEffect ==
    [][(AdmExportStep /\ is_admin(last'.user)
          /\ GetUnexportedReports(reports, google_exports) = <<>>) =>
          /\ Len(sent') = 2
          /\ sent'[2].text[2] = "nothing_new"
          /\ UNCHANGED <<google_exports, monthly_sheets, sheet_rows>>]_vars

-----------------------------------------------------------------------------
(* The admin buttons pressed by a user who is no admin.                    *)

AdminOnly ==
    AdmAskData \cup
    {<<"menu", "admin">>, <<"adm", "menu", "activities">>, <<"adm", "menu", "locations">>,
     <<"adm", "export">>}

\* C22: for a user who is not in ADMIN_IDS each of menu:admin, adm:menu:*,
\* adm:add:*, adm:del:* and adm:export is answered with "no rights" alone:
\* the user's state and data, the tables and the sheets stay as they were
\* and no export run starts.
C22_AdminButtonsNeedRights ==
    [][(last'.kind = "callback" /\ last'.data \in AdminOnly
          /\ last'.user \in RightsUsers \ ADMIN_IDS) =>
          /\ sent' = MsgNoRights
          /\ StateOf(user_states', last'.user) = StateOf(user_states, last'.user)
          /\ UNCHANGED <<dbVars, exVars>>]_vars

C22_Witness ==
    /\ last = [user |-> "u2", kind |-> "callback", data |-> <<"adm", "export">>]
    /\ sent = MsgNoRights
    /\ StateOf(user_states, "u2").state = "waiting_name"
    /\ now = 0 - 4 /\ monthly_sheets = {}


\* C23: every POST to the webhook is answered 200, whatever its body and
\* whatever the handler does, by src/bot.py and by src/webhook.py.
C23_PostAlwaysAnswers200 ==
    http.method = "POST" => http.status = 200

\* C24: a GET to the webhook is answered 200 with hub.challenge exactly
\* when hub.mode is "subscribe" and hub.verify_token is the secret, and 403
\* for every other combination, by src/bot.py and by src/webhook.py.
C24_VerifyAnswers200Or403 ==
    http.method = "GET" =>
        IF http.req[1] = Some("subscribe") /\ http.req[2] = Some(VERIFY_TOKEN)
        THEN http.status = 200 /\ http.body = http.req[3]
        ELSE http.status = 403


\* the store without the entry of u
Without(us, u) == [v \in DOMAIN us \ {u} |-> us[v]]

\* C25: get_state on a user without an entry creates and returns exactly
\* {state: None, data: {}} and touches no other entry; clear_state leaves
\* that same value and is idempotent; a never-seen user and a just-cleared
\* user are read alike; the store holds one entry per user_id.
C25_AbsentIsEmptyState ==
    \A u \in Users :
        LET got == GetState(user_states, u)
            cleared == ClearState(user_states, u)
        IN  /\ u \notin DOMAIN user_states =>
                  /\ got[u] = [state |-> NoState, data |-> EmptyDict]
                  /\ DOMAIN got = DOMAIN user_states \cup {u}
                  /\ \A v \in DOMAIN user_states : got[v] = user_states[v]
            /\ u \in DOMAIN user_states => got = user_states
            /\ cleared[u] = [state |-> NoState, data |-> EmptyDict]
            /\ DOMAIN cleared = DOMAIN user_states \cup {u}
            /\ \A v \in DOMAIN user_states \ {u} : cleared[v] = user_states[v]
            /\ ClearState(cleared, u) = cleared
            /\ GetState(cleared, u) = cleared
            /\ GetState(Without(user_states, u), u)[u] = cleared[u]

\* a handler has just cleared the state of a user who had work data, while
\* another user has never been seen
C25_Witness ==
    \E u \in DOMAIN user_states, v \in Users \ DOMAIN user_states :
        /\ last.user = u
        /\ user_states[u] = NewEntry
        /\ sent = MsgStale


NameStep(state) ==
    /\ last'.kind = "text"
    /\ ~IsCommand(last'.data[1])
    /\ CurrentState(last'.user) = state
NameText == TextTable[last'.data[1]].strip
UniqueNames(table) == \A r1, r2 \in table : r1.name = r2.name => r1 = r2

\* an add: refused with the table as it was when the name is empty or
\* taken, and one row with the name more otherwise
AddedTo(table, table1) ==
    IF NameText = "" \/ \E r \in table : r.name = NameText
    THEN table1 = table /\ sent' = <<Msg(<<"already_exists">>, <<>>)>>
    ELSE /\ \E r \in table1 \ table : r.name = NameText /\ table1 = table \cup {r}
         /\ sent' = <<Msg(<<"added">>, <<>>)>>

\* a delete: the rows with exactly this name go, the others stay
RemovedFrom(table, table1) ==
    /\ table1 = {r \in table : r.name # NameText}
    /\ sent' = <<Msg(<<IF table1 # table THEN "removed" ELSE "not_found">>, <<>>)>>

\* C26: through the administrator's adds and deletes no two rows of
\* activities, and no two rows of locations, have the same name; adding a
\* name that exists, or an empty one, reports failure and leaves the table
\* as it was; deleting removes the row whose name matches exactly and no
\* other.
C26_NamesStayUnique ==
    /\ [](UniqueNames(activities) /\ UniqueNames(locations))
    /\ [][/\ NameStep("adm_wait_act_add") =>
                AddedTo(activities, activities') /\ UNCHANGED locations
          /\ NameStep("adm_wait_loc_add") =>
                AddedTo(locations, locations') /\ UNCHANGED activities
          /\ NameStep("adm_wait_act_del") =>
                RemovedFrom(activities, activities') /\ UNCHANGED locations
          /\ NameStep("adm_wait_loc_del") =>
                RemovedFrom(locations, locations') /\ UNCHANGED activities]_vars

\* "uborka" was added to activities, and adding it again has been refused
C26_Witness ==
    /\ last.kind = "text" /\ last.data = <<"uborka">>
    /\ sent = <<Msg(<<"already_exists">>, <<>>)>>
    /\ \E r \in activities : r.name = "uborka"
    /\ ~\E r \in locations : r.name = "Sad"


\* C27: when two work:hours handlers of one user for one date run with
\* the one's cap check and write on either side of the other's, the hours
\* stored for the user and the date are still at most 24.
C27_CapHoldsWhenHandlersInterleave ==
    \A r \in reports : DaySum(reports, r.user_id, r.work_date) <= 24


\* the page a message of a pager shows and the number of pages, read from
\* its text ("page p of n", "record p of n"); a message without them is
\* the only page
PagerPage(m) ==
    LET n == Len(m.text)
    IN  IF n >= 3 /\ m.text[1] = "edit_record"
        THEN [page |-> ParseInt(m.text[2]) - 1, total |-> ParseInt(m.text[3])]
        ELSE IF n >= 3 /\ m.text[n - 2] = "page"
        THEN [page |-> ParseInt(m.text[n - 1]) - 1, total |-> ParseInt(m.text[n])]
        ELSE [page |-> 0, total |-> 1]

\* the message has a control that leads to the page after its own
OffersNext(m) ==
    \E j \in DOMAIN m.buttons :
        /\ HasPrefix(m.buttons[j].callback_data, <<"nav">>)
        /\ m.buttons[j].callback_data[3] = ToStr(PagerPage(m).page + 1)

\* C28: every page of a paged list and of the record editor can be reached
\* from page 0 through the arrows the bot offers.  An arrow leads to the
\* page before or the page after, so this says that every page but the
\* last one offers the arrow to the page after it.
C28_EveryPageLeadsOn ==
    \A i \in DOMAIN sent :
        PagerPage(sent[i]).page < PagerPage(sent[i]).total - 1 => OffersNext(sent[i])

\* what the arrows make of it: no page after the second is ever shown
OnlyFirstTwoPages == \A i \in DOMAIN sent : PagerPage(sent[i]).page <= 1


ReportIdsOf(tbl) == {r.id : r \in tbl}
RowInserted == ReportIdsOf(reports') \ ReportIdsOf(reports) # {}
RowRemoved == ReportIdsOf(reports) \ ReportIdsOf(reports') # {}
RowChanged == \E r \in reports, r2 \in reports' : r.id = r2.id /\ r # r2

\* the step handles a work:hours submission that is accepted: an integer,
\* the five fields in the work data, within the cap, and answered
WorkHoursAccepted ==
    /\ WorkHoursStep
    /\ WorkAlready(last'.user) + ParseInt(last'.data[3]) <= 24
    /\ ~raised'

\* C29: a report row is inserted only by an accepted work:hours whose work
\* data holds grp, activity, loc_grp, location and work_date, which inserts
\* exactly one row and then clears the state; hours are changed only by
\* edit:h and nothing else of a row ever is; rows are removed only by
\* edit:del; every other event leaves the reports as they were.
C29_ReportsChangeOnlyByTheirEvents ==
    [][LET u == last'.user
           w == WorkOf(u)
       IN  /\ RowInserted => WorkHoursAccepted /\ ~RowRemoved /\ ~RowChanged
           /\ WorkHoursAccepted =>
                 /\ \E r \in reports' \ reports :
                       /\ reports' = reports \cup {r}
                       /\ r.id \notin ReportIdsOf(reports)
                       /\ r.user_id = u /\ r.hours = ParseInt(last'.data[3])
                       /\ r.work_date = w["work_date"] /\ r.location = w["location"]
                       /\ r.location_grp = w["loc_grp"] /\ r.activity = w["activity"]
                       /\ r.activity_grp = w["grp"]
                 /\ StateOf(user_states', u) = NewEntry
           /\ RowChanged =>
                 /\ StepOfInt(<<"edit", "h">>)
                 /\ ~RowInserted /\ ~RowRemoved
                 /\ \A r \in reports, r2 \in reports' :
                       r.id = r2.id => r2 = [r EXCEPT !.hours = r2.hours]
           /\ RowRemoved =>
                 /\ StepOfInt(<<"edit", "del">>)
                 /\ reports' \subseteq reports]_vars

\* a report was stored with 5 hours and has just been corrected to 20
C29_Witness ==
    /\ last.data = <<"edit", "h", "20">>
    /\ \E r \in reports : r.id = 1 /\ r.hours = 20 /\ r.user_id = "u1"
    /\ sent # <<>> /\ sent[1].text[1] = "updated"


\* the state of a phone in the simple conversation
SmStateOf(st, p) == SmGet(st, p)[p].state
\* the step takes the phone of its message into the state from another one
SmEnters(state) ==
    /\ SmStateOf(fsm_states', last'.user) = state
    /\ SmStateOf(fsm_states, last'.user) # state
\* the step handles the choice of a row of the table made in the state
SmChose(state, table) ==
    /\ last'.kind = "sm_list"
    /\ SmStateOf(fsm_states, last'.user) = state
    /\ last'.data[1] \in DOMAIN table

\* C30: in the simple conversation SELECT_SHIFT is entered only from
\* SELECT_WORK on a work id of WORK_TYPES, SELECT_HOURS only from
\* SELECT_SHIFT on a shift id of SHIFTS, CONFIRM_SAVE only from SELECT_HOURS
\* on an hours id of HOURS_OPTIONS; so in CONFIRM_SAVE the data hold a work
\* of WORK_TYPES, a shift of SHIFTS and an hours value of HOURS_OPTIONS.
C30_ConfirmOnlyAfterThreeChoices ==
    /\ [][/\ SmEnters("SELECT_SHIFT") => SmChose("SELECT_WORK", WORK_TYPES)
          /\ SmEnters("SELECT_HOURS") => SmChose("SELECT_SHIFT", SHIFTS)
          /\ SmEnters("CONFIRM_SAVE") => SmChose("SELECT_HOURS", HOURS_OPTIONS)]_vars
    /\ [](\A p \in DOMAIN fsm_states :
            fsm_states[p].state = "CONFIRM_SAVE" =>
               /\ SmData(fsm_states, p, "work", "") \in Range(WORK_TYPES)
               /\ SmData(fsm_states, p, "shift", "") \in Range(SHIFTS)
               /\ SmData(fsm_states, p, "hours", "") \in Range(HOURS_OPTIONS))

\* the third choice has just been made: the confirmation is on display
C30_Witness ==
    /\ last.kind = "sm_list" /\ last.data = <<"hours_8">>
    /\ "p1" \in DOMAIN fsm_states
    /\ fsm_states["p1"].state = "CONFIRM_SAVE"
    /\ fsm_states["p1"].data["work"] = WORK_TYPES["work_field"]
    /\ fsm_states["p1"].data["shift"] = SHIFTS["shift_2"]
    /\ fsm_states["p1"].data["hours"] = HOURS_OPTIONS["hours_8"]


-----------------------------------------------------------------------------
(* The simple conversation: confirm_yes outside CONFIRM_SAVE.              *)

\* C31: in the simple conversation save_entry is called only while the
\* state is CONFIRM_SAVE: a confirm_yes button that arrives in MAIN_MENU,
\* SELECT_WORK, SELECT_SHIFT or SELECT_HOURS saves nothing, whatever data
\* earlier flows left behind.
C31_SaveOnlyInConfirmState ==
    [][(SmStep("sm_button") /\ save_log' # <<>>) =>
          SmBefore.state = "CONFIRM_SAVE"]_vars


-----------------------------------------------------------------------------
(* Registration: "start" from a user who has a name.                       *)

\* the stored full name of a user, "" for no row and for a NULL name
NameOf(tbl, u) == IF u \in DOMAIN tbl THEN FullNameOrEmpty(tbl[u]) ELSE ""

\* C32: when a user with a non-empty registered name sends "start" (or the
\* Russian word), the stored name stays, the user is not put in
\* waiting_name and the main menu is shown; and a registered name changes
\* only by an accepted text in state waiting_name.
C32_StartKeepsRegisteredName ==
    [][/\ (last'.kind = "text" /\ TextTable[last'.data[1]].lower \in {"start", "start_ru"}
           /\ NameOf(users, last'.user) # "") =>
             /\ NameOf(users', last'.user) = NameOf(users, last'.user)
             /\ StateOf(user_states', last'.user).state # "waiting_name"
             /\ sent' = ShowMainMenu(GetUser(users, last'.user))
       /\ \A u \in Users :
            (NameOf(users, u) # "" /\ NameOf(users', u) # NameOf(users, u)) =>
               /\ last' = [user |-> u, kind |-> "text", data |-> last'.data]
               /\ ~IsCommand(last'.data[1])
               /\ StateOf(user_states, u).state = "waiting_name"
               /\ TextTable[last'.data[1]].len >= 3 /\ TextTable[last'.data[1]].space
               /\ NameOf(users', u) = TextTable[last'.data[1]].strip]_vars


-----------------------------------------------------------------------------
(* Reports and the registration of their author.                           *)

\* C33: every stored report was submitted by a registered user: a step
\* that inserts a report is made by a user whose stored full name is not
\* empty, and the report's reg_name is that name; so no stored report has
\* an empty reg_name.
C33_ReportsComeFromRegisteredUsers ==
    /\ [](\A r \in reports : r.reg_name # "")
    /\ [][\A r \in reports' \ reports :
            /\ r.user_id = last'.user
            /\ NameOf(users, r.user_id) # ""
            /\ r.reg_name = NameOf(users, r.user_id)]_vars


-----------------------------------------------------------------------------
(* Reference data are the administrators'.                                 *)

AdmWaitStates ==
    {"adm_wait_act_add", "adm_wait_act_del", "adm_wait_loc_add", "adm_wait_loc_del"}
\* only a user of ADMIN_IDS is ever in one of the adm_wait_* states
AdmWaitOnlyAdmins ==
    \A u \in DOMAIN user_states : user_states[u].state \in AdmWaitStates => u \in ADMIN_IDS

\* C34: activities and locations are changed by admins only: a user in
\* one of the adm_wait_* states is in ADMIN_IDS, and no event of a user
\* outside ADMIN_IDS adds or removes an activity or a location.
C34_ReferenceDataChangedByAdminsOnly ==
    /\ []AdmWaitOnlyAdmins
    /\ [][<<activities, locations>>' # <<activities, locations>> =>
            last'.user \in ADMIN_IDS]_vars


-----------------------------------------------------------------------------
(* A user's reports are their own.                                         *)

\* the report with this id is another user's than the step's
ForeignReport(rid) == \E r \in reports : r.id = rid /\ r.user_id # last'.user

\* C35: no event of a user changes or deletes a report of another user;
\* edit:del with the id of another user's report, and edit:h in an edit
\* session (edit:chg) on another user's report, are answered with a
\* failure and leave the reports as they were.
C35_OthersReportsUntouched ==
    [][/\ \A r \in reports : r.user_id # last'.user => r \in reports'
       /\ (StepOfInt(<<"edit", "del">>) /\ ForeignReport(ParseInt(last'.data[3]))) =>
             /\ reports' = reports
             /\ sent' = <<Msg(<<"could_not_delete">>, <<>>)>>
       /\ (StepOfInt(<<"edit", "h">>) /\ "edit_id" \in DOMAIN EditOf(last'.user)
             /\ ForeignReport(EditOf(last'.user)["edit_id"])) =>
             /\ reports' = reports
             /\ Len(sent') = 1
             /\ sent'[1].text[1] \in {"could_not_update", "hours_limit_exceeded_edit"}]_vars

\* u1 has opened report 1 of u2 with edit:chg and sent edit:h:8
C35_Witness ==
    /\ last = [user |-> "u1", kind |-> "callback", data |-> <<"edit", "h", "8">>]
    /\ sent = <<Msg(<<"could_not_update">>, <<>>)>>
    /\ StateOf(user_states, "u1").data["edit_id"] = 1
    /\ \E r \in reports : r.id = 1 /\ r.user_id = "u2" /\ r.hours = 5


-----------------------------------------------------------------------------
(* The conversation state of a user is that user's.                        *)

\* C36: handling a text or a callback of one user leaves the entry (state
\* and data) of every other user in the state store as it was, an absent
\* entry absent.
C36_OtherUsersStateUntouched ==
    [][\A b \in Users \ {last'.user} :
          IF b \in DOMAIN user_states
          THEN b \in DOMAIN user_states' /\ user_states'[b] = user_states[b]
          ELSE b \notin DOMAIN user_states']_vars

\* u1 was asked for the name of an activity while u2 is choosing one
C36_Witness ==
    /\ last.user = "u1" /\ last.kind = "callback" /\ last.data = <<"adm", "del", "act">>
    /\ {"u1", "u2"} \subseteq DOMAIN user_states
    /\ user_states["u1"].state = "adm_wait_act_del"
    /\ user_states["u2"].state = "pick_activity"
    /\ "work" \in DOMAIN user_states["u2"].data


-----------------------------------------------------------------------------
(* The hours of a stored report.                                           *)

\* C37: the hours of every stored report are one of the offered options
\* 1..10, 12, 16, 20, 24, after any work:hours submissions and edit:h
\* corrections.
C37_HoursAreOfferedOptions ==
    \A r \in reports : r.hours \in Range(hours_options)


-----------------------------------------------------------------------------
(* The way to the admin panel.                                             *)

\* the callback ids of the controls of a message
ControlsOf(m) == {m.buttons[j].callback_data : j \in DOMAIN m.buttons}

\* C38: an admin reaches the admin panel from the main menu through
\* offered controls, main menu, "More", admin: the main menu offers
\* menu:more and the "More" menu shown to an admin offers menu:admin.
C38_MoreMenuOffersAdmin ==
    \A i \in DOMAIN sent :
        /\ sent[i].text[1] = "main_menu" => <<"menu", "more">> \in ControlsOf(sent[i])
        /\ (sent[i].text[1] = "more_menu" /\ is_admin(last.user)) =>
              <<"menu", "admin">> \in ControlsOf(sent[i])

\* no message sent to a user who follows the controls offers menu:admin
AdminNeverOffered == <<"menu", "admin">> \notin Offered


-----------------------------------------------------------------------------
(* The export: the count a run returns.                                    *)

\* the step ends the run of j that was in its loop over the months
RunEnds(j) == ex[j].pc \in {"batch", "record"} /\ ex'[j].pc = "idle"
\* the export records the run of j has inserted when the step is done:
\* those of the months before and those of the step
InsertedBy(j) == ex[j].total + Cardinality(google_exports' \ google_exports)

\* C39: the count export_reports_to_sheets returns, which the admin is
\* told, is the number of export records the call inserted, also when the
\* call fails after the records of some months were committed: a call
\* that ends in its except branch returns 0, any other its total.
C39_CountIsRecordsInserted ==
    [][\A j \in Runners : RunEnds(j) =>
          /\ ex'[j].result = "failed" => InsertedBy(j) = 0
          /\ j = "admin" =>
                sent'[Len(sent')].text[2] =
                    IF ex'[j].result = "failed" THEN "export_error"
                    ELSE "exported_" \o ToStr(InsertedBy(j))]_vars


-----------------------------------------------------------------------------
(* The sheet of the next month.                                            *)

\* C40: check_and_create_next_month_sheet creates a sheet only when at
\* most 3 days of the running month remain and monthly_sheets has no row
\* for the next month, which for December is January of the next year and
\* otherwise the month after in the same year; and after any calls
\* monthly_sheets has at most one row per year and month.
C40_NextMonthSheetOnlyWhenDue ==
    /\ [](\A r1, r2 \in sheets_table :
            (r1.year = r2.year /\ r1.month = r2.month) => r1 = r2)
    /\ [][sheet_call'.fn = "check" =>
            LET t == sheet_call'.today
                new == sheets_table' \ sheets_table
                ny == IF t.month = 12 THEN t.year + 1 ELSE t.year
                nm == IF t.month = 12 THEN 1 ELSE t.month + 1
            IN  /\ sheets_table \subseteq sheets_table'
                /\ sheet_call'.created <=> new # {}
                /\ new # {} =>
                      /\ LastDay(t.year, t.month) - t.day <= 3
                      /\ ~HasSheet(sheets_table, ny, nm)
                      /\ Cardinality(new) = 1
                      /\ \A r \in new : r.year = ny /\ r.month = nm]_vars

\* on 28 December 2027 the sheet of January 2028 has been created
C40_Witness ==
    /\ sheet_call = [fn |-> "check", today |-> Date(2027, 12, 28), created |-> TRUE]
    /\ HasSheet(sheets_table, 2028, 1)
    /\ HasSheet(sheets_table, 2027, 3)

=============================================================================
